---- MODULE Spec2Model ----
(***************************************************************************)
(* Sunscatter MPPT firmware, board revision v0.2.0 (main.cpp, built with   *)
(* __DEBUG__ == 1): the supervisory state machine, the redline monitor and *)
(* the event queue that sequences the periodic tasks.                      *)
(*                                                                         *)
(* Units.  The firmware computes in float; the model uses fixed point:     *)
(*   voltages in 0.1 V, currents in 0.1 A, duty cycles in 0.001 (per       *)
(*   mille).  A duty that is not a finite number is one of the three      *)
(*   values DUTY_NAN, DUTY_POS_INF, DUTY_NEG_INF, compared as IEEE-754     *)
(*   compares them (FGe, FLe).                                             *)
(*                                                                         *)
(* The four MedianFilter objects are represented by the value their        *)
(* getResult() returns (0.0 for a filter without samples); one             *)
(* event_measure_sensors task moves the four results to a new vector.      *)
(***************************************************************************)
EXTENDS Integers, Sequences, FiniteSets, TLC

(***************************************************************************)
(* Bounds of the model.                                                    *)
(***************************************************************************)
\* tasks an interrupt handler may find pending and still add one more
MaxQueue == 2

\* step_pid calls followed between two reset_state calls
MaxPidSteps == 2

\* largest magnitude of a target or an actual given to step_pid
MaxPidValue == 2

\* largest array voltage and current given to PandO (0.1 V, 0.1 A)
MaxPandOValue == 2

\* largest magnitude of the PandO reference followed (0.1 V)
MaxPandORef == 3

\* largest array voltage given to IC (0.1 V)
MaxIcValue == 2

\* largest magnitude of the IC reference followed (0.1 V)
MaxIcRef == 3

\* largest magnitude of the Fuzzy reference followed (0.01 V)
MaxFuzzyRef == 8

\* largest maxSamples a filter is constructed with
MaxFilterCapacity == 3

\* addSample calls followed since construction or the last clear
MaxFilterSamples == 4

(***************************************************************************)
(* Program constants (fixed point, see Units).                             *)
(***************************************************************************)
MIN_INP_VOLT == 0
MAX_INP_VOLT == 700
MIN_INP_CURR == 0
MAX_INP_CURR == 80
MIN_OUT_VOLT == 800
MAX_OUT_VOLT == 1300
MIN_OUT_CURR == 0
MAX_OUT_CURR == 50
MIN_DUTY == 100
MAX_DUTY == 900

\* ErrorCode
INP_UVLO == 100
INP_OVLO == 101
INP_UILO == 102
INP_OILO == 103
OUT_UVLO == 104
OUT_OVLO == 105
OUT_UILO == 106
OUT_OILO == 107
INP_OUT_INV == 108
PWM_ULO == 109
PWM_OLO == 110

\* CAN IDs
CAN_SET_MODE == 1537
CAN_ACK_FAULT == 1539
CAN_SEN_CONF1 == 1540
\* the value event_process_can holds before a message is read
CAN_ID_NONE == 0

\* pwm_out.write(1.0 - 0.5)
DUTY_NEUTRAL == 500
\* 1.0 as a duty
DUTY_ONE == 1000
\* float stride = 0.1 (volts) in event_run_mppt
MPPT_STRIDE == 1

\* non-finite floats
DUTY_POS_INF == 1000000
DUTY_NEG_INF == -1000000
DUTY_NAN == 9999999

States == {"STOP", "RUN", "ERROR"}

Tasks ==
    {"heartbeat", "measure_sensors", "check_redlines", "run_pid", "run_mppt",
     "process_can", "update_state_machine"}

\* the CAN identifiers event_process_can may be handed
CanIds == {CAN_ID_NONE, CAN_SET_MODE, CAN_ACK_FAULT, CAN_SEN_CONF1}

Vec(av, ai, bv, bi) == [arr_v |-> av, arr_i |-> ai, batt_v |-> bv, batt_i |-> bi]

\* all four filters without samples: getResult() is 0.0
EmptyVec == Vec(0, 0, 0, 0)
\* 40.0 V / 5.0 A in, 100.0 V / 2.0 A out
NominalVec == Vec(400, 50, 1000, 20)
\* array at 75.0 V, above MAX_INP_VOLT
OverVoltVec == Vec(750, 50, 1000, 20)

\* filtered measurement vectors event_measure_sensors may produce
MeasVectors == {EmptyVec, NominalVec, OverVoltVec}

VARIABLES
    current_state,   \* enum State
    is_error,        \* latched by _assert
    set_mode,        \* latched by SET_MODE
    ack_fault,       \* latched by ACK_FAULT
    pwm_enable,      \* DigitalOut pwm_enable, 0 or 1
    pwm_out,         \* duty last written to FastPWM pwm_out
    led_heartbeat, led_tracking, led_error,
    ticker_mppt,     \* TRUE iff ticker_mppt is attached
    ticker_pid,      \* TRUE iff ticker_pid is attached
    ticker_redlines, \* TRUE iff ticker_redlines is attached
    queue,           \* EventQueue: pending tasks, oldest first
    filt,            \* getResult() of the four filters
    ref_inp_v, prev_arr_v, prev_arr_p,
    reported,        \* error codes written out by the latest redline task
    ack_since_fault, \* history: an ACK_FAULT was processed after is_error was last raised
    pid,             \* a PIDController object
    pid_ret,         \* value returned by the latest step_pid
    pid_errs,        \* history: errors of the step_pid calls since construction or reset_state
    pando,           \* a PandO object
    ic,              \* an IC object
    fuzzy,           \* a Fuzzy object
    mppt_kind,       \* the class of the object behind the caller's MPPT reference
    mppt_hist,       \* history: "new", "stepped" since then, or "reset" after steps
    filter,          \* a Filter object of any of the five classes
    filter_ctor,     \* history: the constructor call that made filter
    filter_ret,      \* value returned by the latest getResult
    samples,         \* history: samples added since construction or clear
    heap             \* the array behind mDataBuffer, and what the latest call
                     \* did to it once it was released

vars ==
    <<current_state, is_error, set_mode, ack_fault, pwm_enable, pwm_out,
      led_heartbeat, led_tracking, led_error, ticker_mppt, ticker_pid, ticker_redlines, queue,
      filt, ref_inp_v, prev_arr_v, prev_arr_p, reported, ack_since_fault,
      pid, pid_ret, pid_errs, pando, ic, fuzzy, mppt_kind, mppt_hist,
      filter, filter_ctor, filter_ret, samples, heap>>

\* the main program
sysvars ==
    <<current_state, is_error, set_mode, ack_fault, pwm_enable, pwm_out,
      led_heartbeat, led_tracking, led_error, ticker_mppt, ticker_pid, ticker_redlines, queue,
      filt, ref_inp_v, prev_arr_v, prev_arr_p, reported, ack_since_fault>>

\* the controller classes, which main.cpp of this revision does not instantiate
pidvars == <<pid, pid_ret, pid_errs>>

mpptvars == <<pando, ic, fuzzy, mppt_kind, mppt_hist>>

filtervars == <<filter, filter_ctor, filter_ret, samples, heap>>

libvars == <<pidvars, mpptvars, filtervars>>

(***************************************************************************)
(* Float helpers.                                                          *)
(***************************************************************************)
IsFinite(x) == x \notin {DUTY_NAN, DUTY_POS_INF, DUTY_NEG_INF}

\* x >= b and x <= b for a float x that may be NaN or infinite, b finite
FGe(x, b) == x # DUTY_NAN /\ x >= b
FLe(x, b) == x # DUTY_NAN /\ x <= b

\* num / den as a duty in per mille; den = 0 gives an infinity or NaN
FDiv(num, den) ==
    IF den = 0
    THEN IF num > 0 THEN DUTY_POS_INF
         ELSE IF num < 0 THEN DUTY_NEG_INF ELSE DUTY_NAN
    ELSE (num * DUTY_ONE) \div den

\* 1.0 - x
OneMinus(x) ==
    IF x = DUTY_NAN THEN DUTY_NAN
    ELSE IF x = DUTY_POS_INF THEN DUTY_NEG_INF
    ELSE IF x = DUTY_NEG_INF THEN DUTY_POS_INF
    ELSE DUTY_ONE - x

Count(q, t) == Cardinality({i \in 1..Len(q) : q[i] = t})

Repeat(t, n) == [i \in 1..n |-> t]

Range(s) == {s[i] : i \in 1..Len(s)}

(***************************************************************************)
(* PIDController (pid_controller.cpp).  Values are integers: the           *)
(* arithmetic of step_pid is sums and products, exact on them.             *)
(***************************************************************************)
PIDController(min, max, p, i, d) ==
    [min_output |-> min, max_output |-> max,
     p_coeff |-> p, i_coeff |-> i, d_coeff |-> d,
     prev_error |-> 0, sum_error |-> 0, delta_error |-> 0]

\* variant: the lower bound is not applied
step_pid_NoLowClamp(c, target, actual) ==
    LET error == target - actual
        sum_error == c.sum_error + error
        delta_error == error - c.prev_error
        output == (c.p_coeff * error) + (c.i_coeff * sum_error)
                      + (c.d_coeff * delta_error)
        output2 == IF output > c.max_output THEN c.max_output ELSE output
    IN  [obj |-> [c EXCEPT !.sum_error = sum_error,
                           !.delta_error = delta_error,
                           !.prev_error = error],
         ret |-> output2]

\* variant: the integral is held while the output is clamped
step_pid_AntiWindup(c, target, actual) ==
    LET error == target - actual
        sum_error == c.sum_error + error
        delta_error == error - c.prev_error
        output == (c.p_coeff * error) + (c.i_coeff * sum_error)
                      + (c.d_coeff * delta_error)
        output1 == IF output < c.min_output THEN c.min_output ELSE output
        output2 == IF output1 > c.max_output THEN c.max_output ELSE output1
    IN  [obj |-> [c EXCEPT !.sum_error = IF output2 = output
                                         THEN sum_error ELSE c.sum_error,
                           !.delta_error = delta_error,
                           !.prev_error = error],
         ret |-> output2]

\* step_pid: the object after the call and the value returned
step_pid(c, target, actual) ==
    LET error == target - actual
        sum_error == c.sum_error + error
        delta_error == error - c.prev_error
        output == (c.p_coeff * error) + (c.i_coeff * sum_error)
                      + (c.d_coeff * delta_error)
        output1 == IF output < c.min_output THEN c.min_output ELSE output
        output2 == IF output1 > c.max_output THEN c.max_output ELSE output1
    IN  [obj |-> [c EXCEPT !.sum_error = sum_error,
                           !.delta_error = delta_error,
                           !.prev_error = error],
         ret |-> output2]

\* variant: the integral survives the reset
reset_state_KeepsSum(c) ==
    [c EXCEPT !.prev_error = 0, !.delta_error = 0]

reset_state(c) ==
    [c EXCEPT !.prev_error = 0, !.sum_error = 0, !.delta_error = 0]

(***************************************************************************)
(* PandO (mppt/local/pando.hpp) on top of MPPT (mppt.cpp).  Voltages in    *)
(* 0.1 V, so STRIDE is 1.                                                  *)
(***************************************************************************)
PANDO_STRIDE == 1

\* PandO(void): the four inputs are not initialised by the constructor and
\* hold whatever ctx gives them
PandO(ctx) ==
    [array_voltage |-> ctx.arr_v, array_current |-> ctx.arr_i,
     battery_voltage |-> ctx.batt_v, battery_current |-> ctx.batt_i,
     prev_array_voltage |-> 0, prev_array_power |-> 0,
     reference_voltage |-> 0]

PandO_input_context(o, args) ==
    [o EXCEPT !.array_voltage = args.arr_v, !.array_current = args.arr_i,
              !.battery_voltage = args.batt_v, !.battery_current = args.batt_i]

\* variant: the reference moves only when the power has changed
PandO_step_algorithm_FlatPower(o) ==
    LET array_power == o.array_voltage * o.array_current
        delta_array_voltage == o.array_voltage - o.prev_array_voltage
        delta_array_power == array_power - o.prev_array_power
        reference ==
            IF delta_array_power > 0
            THEN IF delta_array_voltage > 0
                 THEN o.reference_voltage + PANDO_STRIDE
                 ELSE IF delta_array_voltage < 0
                 THEN o.reference_voltage - PANDO_STRIDE
                 ELSE o.reference_voltage
            ELSE IF delta_array_power < 0
            THEN IF delta_array_voltage > 0
                 THEN o.reference_voltage - PANDO_STRIDE
                 ELSE IF delta_array_voltage < 0
                 THEN o.reference_voltage + PANDO_STRIDE
                 ELSE o.reference_voltage
            ELSE o.reference_voltage
    IN  [o EXCEPT !.reference_voltage = reference,
                  !.prev_array_voltage = o.array_voltage,
                  !.prev_array_power = array_power]

PandO_step_algorithm(o) ==
    LET array_power == o.array_voltage * o.array_current
        delta_array_voltage == o.array_voltage - o.prev_array_voltage
        delta_array_power == array_power - o.prev_array_power
        reference ==
            IF delta_array_power > 0
            THEN IF delta_array_voltage > 0
                 THEN o.reference_voltage + PANDO_STRIDE
                 ELSE IF delta_array_voltage < 0
                 THEN o.reference_voltage - PANDO_STRIDE
                 ELSE o.reference_voltage
            ELSE IF delta_array_voltage > 0
                 THEN o.reference_voltage - PANDO_STRIDE
                 ELSE IF delta_array_voltage < 0
                 THEN o.reference_voltage + PANDO_STRIDE
                 ELSE o.reference_voltage
    IN  [o EXCEPT !.reference_voltage = reference,
                  !.prev_array_voltage = o.array_voltage,
                  !.prev_array_power = array_power]

\* variant: the remembered power survives the reset
PandO_reset_state_KeepsPower(o) ==
    [o EXCEPT !.reference_voltage = 0, !.prev_array_voltage = 0]

\* MPPT::reset_state, then the two remembered values
PandO_reset_state(o) ==
    [o EXCEPT !.reference_voltage = 0,
              !.prev_array_voltage = 0, !.prev_array_power = 0]

(***************************************************************************)
(* IC (mppt/local/ic.hpp).  Voltages in 0.1 V and currents in 0.01 A, so   *)
(* the discriminant is in 0.001 W: STRIDE is 1 and ERROR is 10.            *)
(***************************************************************************)
IC_STRIDE == 1

IC_ERROR == 10

Abs(x) == IF x < 0 THEN 0 - x ELSE x

\* IC(void): as for PandO, the four inputs are not initialised
IC(ctx) ==
    [array_voltage |-> ctx.arr_v, array_current |-> ctx.arr_i,
     battery_voltage |-> ctx.batt_v, battery_current |-> ctx.batt_i,
     prev_array_voltage |-> 0, prev_array_current |-> 0,
     reference_voltage |-> 0]

IC_input_context(o, args) ==
    [o EXCEPT !.array_voltage = args.arr_v, !.array_current = args.arr_i,
              !.battery_voltage = args.batt_v, !.battery_current = args.batt_i]

\* variant: no tolerance band around the maximum power point
IC_step_algorithm_NoBand(o) ==
    LET delta_array_current == o.array_current - o.prev_array_current
        delta_array_voltage == o.array_voltage - o.prev_array_voltage
        discriminant == (delta_array_current * o.array_voltage)
                            + (o.array_current * delta_array_voltage)
        reference ==
            IF discriminant > 0
            THEN o.reference_voltage + IC_STRIDE
            ELSE IF discriminant < 0
            THEN o.reference_voltage - IC_STRIDE
            ELSE o.reference_voltage
    IN  [o EXCEPT !.reference_voltage = reference,
                  !.prev_array_voltage = o.array_voltage,
                  !.prev_array_current = o.array_current]

IC_step_algorithm(o) ==
    LET delta_array_current == o.array_current - o.prev_array_current
        delta_array_voltage == o.array_voltage - o.prev_array_voltage
        discriminant == (delta_array_current * o.array_voltage)
                            + (o.array_current * delta_array_voltage)
        reference ==
            IF Abs(discriminant) < IC_ERROR
            THEN o.reference_voltage
            ELSE IF discriminant > IC_ERROR
            THEN o.reference_voltage + IC_STRIDE
            ELSE IF discriminant < 0 - IC_ERROR
            THEN o.reference_voltage - IC_STRIDE
            ELSE o.reference_voltage
    IN  [o EXCEPT !.reference_voltage = reference,
                  !.prev_array_voltage = o.array_voltage,
                  !.prev_array_current = o.array_current]

IC_reset_state(o) ==
    [o EXCEPT !.reference_voltage = 0,
              !.prev_array_voltage = 0, !.prev_array_current = 0]

(***************************************************************************)
(* Fuzzy (mppt/local/fuzzy.hpp).  Voltages in 1 V, currents in 0.01 A and  *)
(* powers in 0.01 W; the two percentages in_0 and in_1 in 1/400 %, which   *)
(* makes both quotients exact; the reference in 0.01 V.                    *)
(***************************************************************************)
FUZZY_PCT == 400

Fuzzy_max_power == 40000

Fuzzy_max_current == 800

Fuzzy_input_0 ==
    << <<(0 - 100) * FUZZY_PCT, (0 - 10) * FUZZY_PCT>>,
       <<(0 - 10) * FUZZY_PCT, (0 - 3) * FUZZY_PCT>>,
       <<(0 - 3) * FUZZY_PCT, 3 * FUZZY_PCT>>,
       <<3 * FUZZY_PCT, 10 * FUZZY_PCT>>,
       <<10 * FUZZY_PCT, 100 * FUZZY_PCT>> >>

Fuzzy_input_1 ==
    << <<(0 - 100) * FUZZY_PCT, (0 - 1) * FUZZY_PCT>>,
       <<(0 - 1) * FUZZY_PCT, 1 * FUZZY_PCT>>,
       <<1 * FUZZY_PCT, 100 * FUZZY_PCT>> >>

\* variant: the rule for an unchanged current and a large drop of power
\* selects output 0
Fuzzy_ruleset_BigStepBack ==
    << <<1, 1, 1, 3, 4>>,
       <<0, 3, 2, 3, 4>>,
       <<4, 3, 3, 1, 1>> >>

\* rows by idx_dim_in_1, columns by idx_dim_in_0; entries index Fuzzy_output
Fuzzy_ruleset ==
    << <<1, 1, 1, 3, 4>>,
       <<3, 3, 2, 3, 4>>,
       <<4, 3, 3, 1, 1>> >>

Fuzzy_output == <<0 - 4, 0 - 2, 1, 2, 4>>

\* the loop over a membership table: the last row whose open interval holds
\* the input, row 0 when none does (indices from 0 as in the source)
Fuzzy_idx_dim(in, table) ==
    LET hits == {i \in 1 .. Len(table) : in > table[i][1] /\ in < table[i][2]}
    IN  IF hits = {} THEN 0
        ELSE (CHOOSE i \in hits : \A j \in hits : j <= i) - 1

Fuzzy(ctx) ==
    [has_started |-> FALSE,
     array_voltage |-> ctx.arr_v, array_current |-> ctx.arr_i,
     battery_voltage |-> ctx.batt_v, battery_current |-> ctx.batt_i,
     prev_array_current |-> 0, prev_array_power |-> 0,
     reference_voltage |-> 0]

Fuzzy_input_context(o, args) ==
    [o EXCEPT !.array_voltage = args.arr_v, !.array_current = args.arr_i,
              !.battery_voltage = args.batt_v, !.battery_current = args.batt_i]

\* in_0 of a step on o
Fuzzy_in_0(o) ==
    LET array_power == o.array_voltage * o.array_current
        delta_array_power == array_power - o.prev_array_power
    IN  (delta_array_power * 100 * FUZZY_PCT) \div Fuzzy_max_power

\* in_1 of a step on o: line 166 assigns prev_array_current to array_current
\* and takes that value as the change of current
Fuzzy_in_1(o) ==
    LET delta_array_current == o.prev_array_current
    IN  (delta_array_current * 100 * FUZZY_PCT) \div Fuzzy_max_current

\* variant: the rule table is consulted on the first call too
Fuzzy_step_algorithm_NoFirstCase(o) ==
    LET idx_dim_in_0 == Fuzzy_idx_dim(Fuzzy_in_0(o), Fuzzy_input_0)
        idx_dim_in_1 == Fuzzy_idx_dim(Fuzzy_in_1(o), Fuzzy_input_1)
        idx_out == Fuzzy_ruleset[idx_dim_in_1 + 1][idx_dim_in_0 + 1]
        delta_array_voltage == Fuzzy_output[idx_out + 1]
    IN  [o EXCEPT !.array_current = o.prev_array_current,
                  !.has_started = TRUE,
                  !.reference_voltage =
                      o.reference_voltage + delta_array_voltage]

\* the two remembered values are not written by a step
Fuzzy_step_algorithm(o) ==
    IF ~o.has_started
    THEN [o EXCEPT !.reference_voltage = 0, !.has_started = TRUE]
    ELSE LET idx_dim_in_0 == Fuzzy_idx_dim(Fuzzy_in_0(o), Fuzzy_input_0)
             idx_dim_in_1 == Fuzzy_idx_dim(Fuzzy_in_1(o), Fuzzy_input_1)
             idx_out == Fuzzy_ruleset[idx_dim_in_1 + 1][idx_dim_in_0 + 1]
             delta_array_voltage == Fuzzy_output[idx_out + 1]
         IN  [o EXCEPT !.array_current = o.prev_array_current,
                       !.reference_voltage =
                           o.reference_voltage + delta_array_voltage]

Fuzzy_reset_state(o) ==
    [o EXCEPT !.reference_voltage = 0, !.has_started = FALSE,
              !.prev_array_current = 0, !.prev_array_power = 0]

(***************************************************************************)
(* Filter and its subclasses (Filter.cpp, SmaFilter.h, EmaFilter.h,        *)
(* MedianFilter.h, KalmanFilter.h).  An object is a record tagged with its *)
(* class; the four virtual methods dispatch on the tag.  A sample of 1.0   *)
(* is SAMPLE_ONE, which keeps the quotients of SmaFilter, EmaFilter and    *)
(* MedianFilter exact on the windows followed; KalmanFilter truncates its  *)
(* two quotients to that resolution.                                       *)
(***************************************************************************)
SAMPLE_ONE == 30000

\* a float of new float[n] that nothing has written
FLOAT_UNINIT == 99999999

\* mAlpha in tenths
EMA_ALPHA_DEN == 10

\* KalmanFilter defaults: 10.0, and 225, 25, 0.15 in units of 0.05
KALMAN_ESTIMATE == 300000

KALMAN_EU == 4500

KALMAN_MU == 500

KALMAN_Q == 3

NewFloats(n) == [i \in 0 .. n - 1 |-> FLOAT_UNINIT]

Filter(maxSamples) ==
    [type |-> "Filter", mMaxSamples |-> maxSamples, mCurrentVal |-> 0]

SmaFilter(maxSamples) ==
    [type |-> "SmaFilter", mMaxSamples |-> maxSamples, mCurrentVal |-> 0,
     mDataBuffer |-> NewFloats(maxSamples), mIdx |-> 0, mNumSamples |-> 0,
     mSum |-> 0]

EmaFilter(maxSamples, alpha) ==
    [type |-> "EmaFilter", mMaxSamples |-> maxSamples, mCurrentVal |-> 0,
     mAvg |-> 0, mAlpha |-> alpha]

MedianFilter(maxSamples) ==
    [type |-> "MedianFilter", mMaxSamples |-> maxSamples, mCurrentVal |-> 0,
     mDataBuffer |-> NewFloats(maxSamples), mIdx |-> 0, mNumSamples |-> 0]

KalmanFilter(maxSamples, initialEstimate, estimateUncertainty, measurementUncertainty, processNoiseVariance) ==
    [type |-> "KalmanFilter", mMaxSamples |-> maxSamples, mCurrentVal |-> 0,
     mEstimate |-> initialEstimate, mEu |-> estimateUncertainty,
     mMu |-> measurementUncertainty, mQ |-> processNoiseVariance]

\* KalmanFilter(const uint16_t maxSamples)
KalmanFilterDefault(maxSamples) ==
    KalmanFilter(maxSamples, KALMAN_ESTIMATE, KALMAN_EU, KALMAN_MU, KALMAN_Q)

Filter_addSample(f, val) == [f EXCEPT !.mCurrentVal = val]

Filter_getResult(f) == f.mCurrentVal

Filter_clear(f) == [f EXCEPT !.mCurrentVal = 0]

\* variant: a full buffer does not give up its oldest sample
SmaFilter_addSample_NoEvict(f, sample) ==
    LET full == ~(f.mNumSamples < f.mMaxSamples)
    IN  [f EXCEPT !.mNumSamples = IF full THEN @ ELSE @ + 1,
                  !.mSum = @ + sample,
                  !.mDataBuffer[f.mIdx] = sample,
                  !.mIdx = (@ + 1) % f.mMaxSamples]

SmaFilter_addSample(f, sample) ==
    LET full == ~(f.mNumSamples < f.mMaxSamples)
    IN  [f EXCEPT !.mNumSamples = IF full THEN @ ELSE @ + 1,
                  !.mSum = IF full THEN @ + (sample - f.mDataBuffer[f.mIdx])
                           ELSE @ + sample,
                  !.mDataBuffer[f.mIdx] = sample,
                  !.mIdx = (@ + 1) % f.mMaxSamples]

SmaFilter_getResult(f) ==
    IF f.mNumSamples = 0 THEN 0 ELSE f.mSum \div f.mNumSamples

SmaFilter_clear(f) == [f EXCEPT !.mNumSamples = 0, !.mIdx = 0, !.mSum = 0]

EmaFilter_addSample(f, sample) ==
    [f EXCEPT !.mAvg = (((EMA_ALPHA_DEN - f.mAlpha) * @) + (f.mAlpha * sample))
                           \div EMA_ALPHA_DEN]

EmaFilter_getResult(f) == f.mAvg

EmaFilter_clear(f) == [f EXCEPT !.mAvg = 0]

MedianFilter_addSample(f, sample) ==
    [f EXCEPT !.mNumSamples = IF @ < f.mMaxSamples THEN @ + 1 ELSE @,
              !.mDataBuffer[f.mIdx] = sample,
              !.mIdx = (@ + 1) % f.mMaxSamples]

\* std::sort on a sequence
RECURSIVE Insert(_, _)
Insert(x, q) ==
    IF q = <<>> THEN <<x>>
    ELSE IF x <= Head(q) THEN <<x>> \o q
    ELSE <<Head(q)>> \o Insert(x, Tail(q))

RECURSIVE std_sort(_)
std_sort(q) == IF q = <<>> THEN <<>> ELSE Insert(Head(q), std_sort(Tail(q)))

\* the elements getMedian copies to tempBuffer, tempBuffer[0] first
MedianFilter_tempBuffer(f) ==
    LET startIdx == ((f.mIdx - f.mNumSamples) + f.mMaxSamples) % f.mMaxSamples
    IN  [i \in 1 .. f.mNumSamples |->
             f.mDataBuffer[((i - 1) + startIdx) % f.mMaxSamples]]

\* variant: an even window gives its upper middle element
MedianFilter_getResult_UpperMiddle(f) ==
    LET tempBuffer == std_sort(MedianFilter_tempBuffer(f))
        n == f.mNumSamples
    IN  IF n = 0 THEN 0 ELSE tempBuffer[(n \div 2) + 1]

MedianFilter_getResult(f) ==
    LET tempBuffer == std_sort(MedianFilter_tempBuffer(f))
        n == f.mNumSamples
    IN  IF n = 0 THEN 0
        ELSE IF n % 2 = 0
        THEN (tempBuffer[(n \div 2) + 1] + tempBuffer[n \div 2]) \div 2
        ELSE tempBuffer[(n \div 2) + 1]

MedianFilter_clear(f) == [f EXCEPT !.mNumSamples = 0, !.mIdx = 0]

\* K = mEu / (mEu + mMu), so 1 - K = mMu / (mEu + mMu)
KalmanFilter_addSample(f, sample) ==
    [f EXCEPT !.mEstimate = @ + ((f.mEu * (sample - @)) \div (f.mEu + f.mMu)),
              !.mEu = ((f.mMu * @) \div (@ + f.mMu)) + f.mQ]

KalmanFilter_getResult(f) == f.mEstimate

KalmanFilter_clear(f) ==
    [f EXCEPT !.mEstimate = KALMAN_ESTIMATE, !.mEu = KALMAN_EU,
              !.mMu = KALMAN_MU, !.mQ = KALMAN_Q]

\* The array of new float[mMaxSamples]: mDataBuffer says whether the object
\* has one and whether delete[] has released it, access what the latest call
\* did to it after the release.
NoHeap == [mDataBuffer |-> "none", access |-> {}]

NewHeap(type) ==
    [mDataBuffer |-> IF type \in {"SmaFilter", "MedianFilter"} THEN "allocated"
                     ELSE "none",
     access |-> {}]

\* delete[] mDataBuffer: the pointer keeps its value
delete(h) ==
    IF h.mDataBuffer = "allocated"
    THEN [mDataBuffer |-> "released", access |-> {}]
    ELSE [h EXCEPT !.access = {"free"}]

Filter_shutdown(h) == h

SmaFilter_shutdown(h) == delete(h)

MedianFilter_shutdown(h) == delete(h)

\* the elements of mDataBuffer a call reads, and those it writes
SmaFilter_addSample_access(f) ==
    IF f.mNumSamples < f.mMaxSamples THEN {"write"} ELSE {"read", "write"}

MedianFilter_addSample_access(f) == {"write"}

SmaFilter_getResult_access(f) == {}

MedianFilter_getResult_access(f) ==
    IF f.mNumSamples = 0 THEN {} ELSE {"read"}

\* What a call may find in the array of f: the elements as they were written
\* while the array is allocated; once it is released each element is either
\* still what was written or whatever the allocator has put there since.
Dangling(f, h) ==
    IF h.mDataBuffer # "released" THEN {f}
    ELSE {[f EXCEPT !.mDataBuffer =
                        [i \in DOMAIN f.mDataBuffer |->
                             IF i \in lost THEN FLOAT_UNINIT
                             ELSE f.mDataBuffer[i]]] :
              lost \in SUBSET DOMAIN f.mDataBuffer}

\* the virtual calls through a Filter reference
addSample(f, sample) ==
    CASE f.type = "Filter" -> Filter_addSample(f, sample)
      [] f.type = "SmaFilter" -> SmaFilter_addSample(f, sample)
      [] f.type = "EmaFilter" -> EmaFilter_addSample(f, sample)
      [] f.type = "MedianFilter" -> MedianFilter_addSample(f, sample)
      [] f.type = "KalmanFilter" -> KalmanFilter_addSample(f, sample)

getResult(f) ==
    CASE f.type = "Filter" -> Filter_getResult(f)
      [] f.type = "SmaFilter" -> SmaFilter_getResult(f)
      [] f.type = "EmaFilter" -> EmaFilter_getResult(f)
      [] f.type = "MedianFilter" -> MedianFilter_getResult(f)
      [] f.type = "KalmanFilter" -> KalmanFilter_getResult(f)

clear(f) ==
    CASE f.type = "Filter" -> Filter_clear(f)
      [] f.type = "SmaFilter" -> SmaFilter_clear(f)
      [] f.type = "EmaFilter" -> EmaFilter_clear(f)
      [] f.type = "MedianFilter" -> MedianFilter_clear(f)
      [] f.type = "KalmanFilter" -> KalmanFilter_clear(f)

shutdown(type, h) ==
    CASE type = "Filter" -> Filter_shutdown(h)
      [] type = "SmaFilter" -> SmaFilter_shutdown(h)
      [] type = "EmaFilter" -> Filter_shutdown(h)
      [] type = "MedianFilter" -> MedianFilter_shutdown(h)
      [] type = "KalmanFilter" -> Filter_shutdown(h)

\* what a call does to the array of f, empty for the classes without one
addSample_access(f) ==
    CASE f.type = "SmaFilter" -> SmaFilter_addSample_access(f)
      [] f.type = "MedianFilter" -> MedianFilter_addSample_access(f)
      [] OTHER -> {}

getResult_access(f) ==
    CASE f.type = "SmaFilter" -> SmaFilter_getResult_access(f)
      [] f.type = "MedianFilter" -> MedianFilter_getResult_access(f)
      [] OTHER -> {}

\* access of a call as the heap records it: only after the release
Touch(h, access) ==
    [h EXCEPT !.access = IF h.mDataBuffer = "released" THEN access ELSE {}]

\* the controller objects while nothing calls them
PidIdle ==
    /\ pid = PIDController(0, 0, 0, 0, 0)
    /\ pid_ret = 0
    /\ pid_errs = <<>>

PandOIdle == pando = PandO(EmptyVec)

IcIdle == ic = IC(EmptyVec)

FuzzyIdle == fuzzy = Fuzzy(EmptyVec)

FilterIdle ==
    /\ filter = Filter(1)
    /\ filter_ctor = [type |-> "Filter", maxSamples |-> 1]
    /\ filter_ret = 0
    /\ samples = <<>>
    /\ heap = NoHeap

LibIdle ==
    /\ PidIdle
    /\ PandOIdle
    /\ IcIdle
    /\ FuzzyIdle
    /\ mppt_kind = "PandO"
    /\ mppt_hist = "new"
    /\ FilterIdle

(***************************************************************************)
(* main(): the state when queue.dispatch_forever() starts.  The build has  *)
(* __DEBUG__ == 1, so set_mode is forced on and one state-machine          *)
(* evaluation is already queued.  pwm_out has not been written yet and     *)
(* holds the 0% duty the FastPWM constructor sets.                         *)
(***************************************************************************)
Init ==
    /\ led_heartbeat = 0
    /\ led_tracking = 0
    /\ led_error = 0
    /\ is_error = FALSE
    /\ set_mode = TRUE
    /\ ack_fault = FALSE
    /\ current_state = "STOP"
    /\ ref_inp_v = 0
    /\ pwm_enable = 0
    /\ pwm_out = 0
    /\ ticker_pid = TRUE
    /\ ticker_redlines = TRUE
    /\ ticker_mppt = TRUE
    /\ queue = <<"update_state_machine">>
    /\ filt = EmptyVec
    /\ prev_arr_v = 0
    /\ prev_arr_p = 0
    /\ reported = <<>>
    /\ ack_since_fault = FALSE
    /\ LibIdle

(***************************************************************************)
(* Interrupt handlers: each one only calls queue.call(...).                *)
(***************************************************************************)
handler_heartbeat ==
    /\ Len(queue) < MaxQueue
    /\ led_heartbeat' = 1 - led_heartbeat
    /\ queue' = Append(queue, "heartbeat")
    /\ UNCHANGED <<current_state, is_error, set_mode, ack_fault, pwm_enable,
                   pwm_out, led_tracking, led_error, ticker_mppt, ticker_pid, ticker_redlines,
                   filt, ref_inp_v, prev_arr_v, prev_arr_p, reported,
                   ack_since_fault>>
    /\ UNCHANGED libvars

\* what the handlers that only enqueue leave alone
HandlerFrame ==
    UNCHANGED <<current_state, is_error, set_mode, ack_fault, pwm_enable,
                pwm_out, led_heartbeat, led_tracking, led_error, ticker_mppt,
                ticker_pid, ticker_redlines, filt, ref_inp_v, prev_arr_v, prev_arr_p, reported,
                ack_since_fault, pid, pid_ret, pid_errs, pando, ic, fuzzy,
                mppt_kind, mppt_hist, filter, filter_ctor, filter_ret,
                samples, heap>>

\* variant: the interrupt samples the filters itself
handler_measure_sensors_Inline ==
    /\ Len(queue) < MaxQueue
    /\ filt' \in MeasVectors
    /\ queue' = Append(queue, "measure_sensors")
    /\ UNCHANGED <<current_state, is_error, set_mode, ack_fault, pwm_enable,
                   pwm_out, led_heartbeat, led_tracking, led_error,
                   ticker_mppt, ticker_pid, ticker_redlines, ref_inp_v, prev_arr_v,
                   prev_arr_p, reported, ack_since_fault, pid, pid_ret,
                   pid_errs, pando, ic, fuzzy, mppt_kind, mppt_hist, filter,
                   filter_ctor, filter_ret, samples, heap>>

handler_measure_sensors ==
    /\ Len(queue) < MaxQueue
    /\ queue' = Append(queue, "measure_sensors")
    /\ HandlerFrame

\* variant: the redline ticker runs only while the MPPT ticker does
handler_check_redlines_WithMppt ==
    /\ ticker_redlines
    /\ ticker_mppt
    /\ Len(queue) < MaxQueue
    /\ queue' = Append(queue, "check_redlines")
    /\ HandlerFrame

\* fires only while ticker_redlines is attached
handler_check_redlines ==
    /\ ticker_redlines
    /\ Len(queue) < MaxQueue
    /\ queue' = Append(queue, "check_redlines")
    /\ HandlerFrame

\* fires only while ticker_pid is attached
handler_run_pid ==
    /\ ticker_pid
    /\ Len(queue) < MaxQueue
    /\ queue' = Append(queue, "run_pid")
    /\ HandlerFrame

\* fires only while ticker_mppt is attached
handler_run_mppt ==
    /\ ticker_mppt
    /\ Len(queue) < MaxQueue
    /\ queue' = Append(queue, "run_mppt")
    /\ HandlerFrame

handler_process_can ==
    /\ Len(queue) < MaxQueue
    /\ queue' = Append(queue, "process_can")
    /\ HandlerFrame

(***************************************************************************)
(* Tasks.  The dispatcher runs the oldest pending task to completion.      *)
(***************************************************************************)
Dispatch(task) == queue # <<>> /\ Head(queue) = task

event_heartbeat ==
    /\ Dispatch("heartbeat")
    /\ queue' = Tail(queue)
    /\ UNCHANGED <<current_state, is_error, set_mode, ack_fault, pwm_enable,
                   pwm_out, led_heartbeat, led_tracking, led_error,
                   ticker_mppt, ticker_pid, ticker_redlines, filt, ref_inp_v, prev_arr_v,
                   prev_arr_p, reported, ack_since_fault>>
    /\ UNCHANGED libvars

\* reads the four sensors and adds one sample to each filter
event_measure_sensors ==
    /\ Dispatch("measure_sensors")
    /\ queue' = Tail(queue)
    /\ filt' \in MeasVectors
    /\ UNCHANGED <<current_state, is_error, set_mode, ack_fault, pwm_enable,
                   pwm_out, led_heartbeat, led_tracking, led_error,
                   ticker_mppt, ticker_pid, ticker_redlines, ref_inp_v, prev_arr_v, prev_arr_p,
                   reported, ack_since_fault>>
    /\ UNCHANGED libvars

(***************************************************************************)
(* _assert(condition, code), applied to the effects accumulated so far in  *)
(* this redline task: r.calls counts queue.call(&event_update_state_       *)
(* machine), r.disables counts the writes pwm_enable = 0.                  *)
(***************************************************************************)
\* variant: the fault is latched and signalled, pwm_enable is left to the state machine
_assert_NoDisable(r, condition, code) ==
    IF ~condition
    THEN [pwm_enable |-> r.pwm_enable,
          is_error |-> TRUE,
          reported |-> Append(r.reported, code),
          calls |-> r.calls + 1,
          disables |-> r.disables]
    ELSE r

\* variant: the state machine is not asked to run
_assert_NoSignal(r, condition, code) ==
    IF ~condition
    THEN [pwm_enable |-> 0,
          is_error |-> TRUE,
          reported |-> Append(r.reported, code),
          calls |-> r.calls,
          disables |-> r.disables + 1]
    ELSE r

\* variant: only the first failure of a task disables and signals
_assert_OncePerTick(r, condition, code) ==
    IF ~condition
    THEN [pwm_enable |-> 0,
          is_error |-> TRUE,
          reported |-> Append(r.reported, code),
          calls |-> IF r.calls = 0 THEN 1 ELSE r.calls,
          disables |-> IF r.disables = 0 THEN 1 ELSE r.disables]
    ELSE r

_assert(r, condition, code) ==
    IF ~condition
    THEN [pwm_enable |-> 0,
          is_error |-> TRUE,
          reported |-> Append(r.reported, code),
          calls |-> r.calls + 1,
          disables |-> r.disables + 1]
    ELSE r

\* variant: the array voltage is compared with the output maximum
RedlineChecks_WrongBound(f, pwm) ==
    << <<f.arr_v >= MIN_INP_VOLT, INP_UVLO>>,
       <<f.arr_v <= MAX_OUT_VOLT, INP_OVLO>>,
       <<f.arr_i >= MIN_INP_CURR, INP_UILO>>,
       <<f.arr_i <= MAX_INP_CURR, INP_OILO>>,
       <<f.batt_v >= MIN_OUT_VOLT, OUT_UVLO>>,
       <<f.batt_v <= MAX_OUT_VOLT, OUT_OVLO>>,
       <<f.batt_i >= MIN_OUT_CURR, OUT_UILO>>,
       <<f.batt_i <= MAX_OUT_CURR, OUT_OILO>>,
       <<f.arr_v < f.batt_v, INP_OUT_INV>>,
       <<FGe(pwm, MIN_DUTY), PWM_ULO>>,
       <<FLe(pwm, MAX_DUTY), PWM_OLO>> >>

\* variant: the output current maximum is excluded from the allowed range
RedlineChecks_StrictMax(f, pwm) ==
    << <<f.arr_v >= MIN_INP_VOLT, INP_UVLO>>,
       <<f.arr_v <= MAX_INP_VOLT, INP_OVLO>>,
       <<f.arr_i >= MIN_INP_CURR, INP_UILO>>,
       <<f.arr_i <= MAX_INP_CURR, INP_OILO>>,
       <<f.batt_v >= MIN_OUT_VOLT, OUT_UVLO>>,
       <<f.batt_v <= MAX_OUT_VOLT, OUT_OVLO>>,
       <<f.batt_i >= MIN_OUT_CURR, OUT_UILO>>,
       <<f.batt_i < MAX_OUT_CURR, OUT_OILO>>,
       <<f.arr_v < f.batt_v, INP_OUT_INV>>,
       <<FGe(pwm, MIN_DUTY), PWM_ULO>>,
       <<FLe(pwm, MAX_DUTY), PWM_OLO>> >>

\* variant: equal array and battery voltages pass the inversion check
RedlineChecks_EqualPasses(f, pwm) ==
    << <<f.arr_v >= MIN_INP_VOLT, INP_UVLO>>,
       <<f.arr_v <= MAX_INP_VOLT, INP_OVLO>>,
       <<f.arr_i >= MIN_INP_CURR, INP_UILO>>,
       <<f.arr_i <= MAX_INP_CURR, INP_OILO>>,
       <<f.batt_v >= MIN_OUT_VOLT, OUT_UVLO>>,
       <<f.batt_v <= MAX_OUT_VOLT, OUT_OVLO>>,
       <<f.batt_i >= MIN_OUT_CURR, OUT_UILO>>,
       <<f.batt_i <= MAX_OUT_CURR, OUT_OILO>>,
       <<f.arr_v <= f.batt_v, INP_OUT_INV>>,
       <<FGe(pwm, MIN_DUTY), PWM_ULO>>,
       <<FLe(pwm, MAX_DUTY), PWM_OLO>> >>

\* the eleven checks of event_check_redlines, in program order
RedlineChecks(f, pwm) ==
    << <<f.arr_v >= MIN_INP_VOLT, INP_UVLO>>,
       <<f.arr_v <= MAX_INP_VOLT, INP_OVLO>>,
       <<f.arr_i >= MIN_INP_CURR, INP_UILO>>,
       <<f.arr_i <= MAX_INP_CURR, INP_OILO>>,
       <<f.batt_v >= MIN_OUT_VOLT, OUT_UVLO>>,
       <<f.batt_v <= MAX_OUT_VOLT, OUT_OVLO>>,
       <<f.batt_i >= MIN_OUT_CURR, OUT_UILO>>,
       <<f.batt_i <= MAX_OUT_CURR, OUT_OILO>>,
       <<f.arr_v < f.batt_v, INP_OUT_INV>>,
       <<FGe(pwm, MIN_DUTY), PWM_ULO>>,
       <<FLe(pwm, MAX_DUTY), PWM_OLO>> >>

RECURSIVE RunAsserts(_, _)
RunAsserts(r, checks) ==
    IF checks = <<>> THEN r
    ELSE RunAsserts(_assert(r, Head(checks)[1], Head(checks)[2]), Tail(checks))

\* effects of one event_check_redlines on (pwm_enable, is_error)
RedlineResult(f, pwm, en, err) ==
    RunAsserts([pwm_enable |-> en, is_error |-> err, reported |-> <<>>,
                calls |-> 0, disables |-> 0],
               RedlineChecks(f, pwm))

event_check_redlines ==
    /\ Dispatch("check_redlines")
    /\ LET r == RedlineResult(filt, pwm_out, pwm_enable, is_error) IN
        /\ pwm_enable' = r.pwm_enable
        /\ is_error' = r.is_error
        /\ reported' = r.reported
        /\ queue' = Tail(queue) \o Repeat("update_state_machine", r.calls)
        /\ ack_since_fault' = IF ~is_error /\ r.is_error THEN FALSE
                              ELSE ack_since_fault
    /\ UNCHANGED <<current_state, set_mode, ack_fault, pwm_out, led_heartbeat,
                   led_tracking, led_error, ticker_mppt, ticker_pid, ticker_redlines, filt,
                   ref_inp_v, prev_arr_v, prev_arr_p>>
    /\ UNCHANGED libvars

(***************************************************************************)
(* PIDControllerStep(pidConfig, target, actual) with the configuration of  *)
(* PIDControllerInit(MAX_DUTY, MIN_DUTY, 1E-5, 0.0, 0.0): the integral and *)
(* derivative coefficients are 0, so the output is p * error clamped to    *)
(* [MIN_DUTY, MAX_DUTY].  1E-5 per volt is 1/1000 per mille per 0.1 V.     *)
(***************************************************************************)
PID_P_DIV == 1000

PIDControllerStep(target, actual) ==
    LET error == target - actual
        output == error \div PID_P_DIV
    IN  IF output < MIN_DUTY THEN MIN_DUTY
        ELSE IF output > MAX_DUTY THEN MAX_DUTY ELSE output

event_run_pid ==
    /\ Dispatch("run_pid")
    /\ queue' = Tail(queue)
    /\ LET new_duty == PIDControllerStep(ref_inp_v, filt.arr_v) IN
        pwm_out' = OneMinus(new_duty)
    /\ UNCHANGED <<current_state, is_error, set_mode, ack_fault, pwm_enable,
                   led_heartbeat, led_tracking, led_error, ticker_mppt,
                   ticker_pid, ticker_redlines, filt, ref_inp_v, prev_arr_v, prev_arr_p,
                   reported, ack_since_fault>>
    /\ UNCHANGED libvars

\* the reference event_run_mppt chooses: arr_v plus or minus the stride
MpptReference(arr_v, delta_arr_v, delta_arr_p) ==
    IF delta_arr_p >= 0
    THEN IF delta_arr_v > 0 THEN arr_v + MPPT_STRIDE ELSE arr_v - MPPT_STRIDE
    ELSE IF delta_arr_v >= 0 THEN arr_v - MPPT_STRIDE ELSE arr_v + MPPT_STRIDE

event_run_mppt ==
    /\ Dispatch("run_mppt")
    /\ queue' = Tail(queue)
    /\ LET arr_v == filt.arr_v
           arr_i == filt.arr_i
           batt_v == filt.batt_v
           delta_arr_v == arr_v - prev_arr_v
           delta_arr_p == arr_v * arr_i - prev_arr_p
           ref == MpptReference(arr_v, delta_arr_v, delta_arr_p)
           ref_pwm == OneMinus(FDiv(ref, batt_v))
       IN  /\ ref_inp_v' = ref
           /\ pwm_out' = OneMinus(ref_pwm)
           /\ prev_arr_v' = arr_v
           /\ prev_arr_p' = arr_v * arr_i
    /\ UNCHANGED <<current_state, is_error, set_mode, ack_fault, pwm_enable,
                   led_heartbeat, led_tracking, led_error, ticker_mppt,
                   ticker_pid, ticker_redlines, filt, reported, ack_since_fault>>
    /\ UNCHANGED libvars

(***************************************************************************)
(* event_process_can: the switch over the identifier of the received       *)
(* message.  Reading the message is not written yet in the source (can_id  *)
(* is the placeholder 0 until it is); the identifier is the task's input.  *)
(***************************************************************************)
\* can_mode is the mode a SET_MODE message commands; the task does not read it
event_process_can(can_id, can_mode) ==
    /\ Dispatch("process_can")
    /\ IF can_id = CAN_SET_MODE
       THEN /\ set_mode' = FALSE
            /\ queue' = Append(Tail(queue), "update_state_machine")
            /\ UNCHANGED <<ack_fault, ack_since_fault>>
       ELSE IF can_id = CAN_ACK_FAULT
       THEN /\ ack_fault' = TRUE
            /\ queue' = Append(Tail(queue), "update_state_machine")
            /\ ack_since_fault' = TRUE
            /\ UNCHANGED set_mode
       ELSE /\ queue' = Tail(queue)
            /\ UNCHANGED <<set_mode, ack_fault, ack_since_fault>>
    /\ UNCHANGED <<current_state, is_error, pwm_enable, pwm_out,
                   led_heartbeat, led_tracking, led_error, ticker_mppt,
                   ticker_pid, ticker_redlines, filt, ref_inp_v, prev_arr_v, prev_arr_p,
                   reported>>
    /\ UNCHANGED libvars

(***************************************************************************)
(* event_update_state_machine, first switch: the transition.               *)
(***************************************************************************)
\* variant: in STATE_STOP a run request is honoured before the error check
NextState_ModeFirst(s, e, m, a) ==
    IF s = "STOP"
    THEN IF m THEN "RUN" ELSE IF e THEN "ERROR" ELSE s
    ELSE IF s = "RUN"
    THEN LET s1 == IF ~m THEN "STOP" ELSE s
         IN  IF e THEN "ERROR" ELSE s1
    ELSE IF a THEN "STOP" ELSE s

\* variant: STATE_STOP does not look at is_error
NextState_StopIgnoresError(s, e, m, a) ==
    IF s = "STOP"
    THEN IF m THEN "RUN" ELSE s
    ELSE IF s = "RUN"
    THEN LET s1 == IF ~m THEN "STOP" ELSE s
         IN  IF e THEN "ERROR" ELSE s1
    ELSE IF a THEN "STOP" ELSE s

\* variant: an acknowledged STATE_ERROR stays in STATE_ERROR
NextState_AckStays(s, e, m, a) ==
    IF s = "STOP"
    THEN LET s1 == IF m THEN "RUN" ELSE s
         IN  IF e THEN "ERROR" ELSE s1
    ELSE IF s = "RUN"
    THEN LET s1 == IF ~m THEN "STOP" ELSE s
         IN  IF e THEN "ERROR" ELSE s1
    ELSE s

\* variant: an acknowledged fault resumes RUN when set_mode is still set
NextState_AckResumes(s, e, m, a) ==
    IF s = "STOP"
    THEN LET s1 == IF m THEN "RUN" ELSE s
         IN  IF e THEN "ERROR" ELSE s1
    ELSE IF s = "RUN"
    THEN LET s1 == IF ~m THEN "STOP" ELSE s
         IN  IF e THEN "ERROR" ELSE s1
    ELSE IF a THEN (IF m THEN "RUN" ELSE "STOP") ELSE s

NextState(s, e, m, a) ==
    IF s = "STOP"
    THEN LET s1 == IF m THEN "RUN" ELSE s
         IN  IF e THEN "ERROR" ELSE s1
    ELSE IF s = "RUN"
    THEN LET s1 == IF ~m THEN "STOP" ELSE s
         IN  IF e THEN "ERROR" ELSE s1
    ELSE IF a THEN "STOP" ELSE s

\* variant: the acknowledge branch is taken in every state
AckBranch_AnyState(s, a) == a

\* TRUE iff the first switch takes the acknowledge branch of STATE_ERROR
AckBranch(s, a) == s = "ERROR" /\ a

\* variant: STATE_ERROR does not write the neutral duty
EntryActions_ErrorKeepsDuty(s) ==
    IF s = "STOP"
    THEN /\ pwm_enable' = 0
         /\ pwm_out' = DUTY_NEUTRAL
         /\ ticker_mppt' = FALSE
         /\ prev_arr_v' = 0
         /\ prev_arr_p' = 0
         /\ led_tracking' = 0
         /\ led_error' = 0
    ELSE IF s = "RUN"
    THEN /\ ticker_mppt' = TRUE
         /\ pwm_enable' = 1
         /\ led_tracking' = 1
         /\ led_error' = 0
         /\ UNCHANGED <<pwm_out, prev_arr_v, prev_arr_p>>
    ELSE /\ pwm_enable' = 0
         /\ ticker_mppt' = FALSE
         /\ prev_arr_v' = 0
         /\ prev_arr_p' = 0
         /\ led_error' = 1
         /\ led_tracking' = 0
         /\ UNCHANGED pwm_out

\* variant: STATE_STOP leaves pwm_enable as it is
EntryActions_StopKeepsEnable(s) ==
    IF s = "STOP"
    THEN /\ pwm_out' = DUTY_NEUTRAL
         /\ ticker_mppt' = FALSE
         /\ prev_arr_v' = 0
         /\ prev_arr_p' = 0
         /\ led_tracking' = 0
         /\ led_error' = 0
         /\ UNCHANGED pwm_enable
    ELSE IF s = "RUN"
    THEN /\ ticker_mppt' = TRUE
         /\ pwm_enable' = 1
         /\ led_tracking' = 1
         /\ led_error' = 0
         /\ UNCHANGED <<pwm_out, prev_arr_v, prev_arr_p>>
    ELSE /\ pwm_enable' = 0
         /\ pwm_out' = DUTY_NEUTRAL
         /\ ticker_mppt' = FALSE
         /\ prev_arr_v' = 0
         /\ prev_arr_p' = 0
         /\ led_error' = 1
         /\ led_tracking' = 0

\* second switch: the outputs written on entry to state s
EntryActions(s) ==
    IF s = "STOP"
    THEN /\ pwm_enable' = 0
         /\ pwm_out' = DUTY_NEUTRAL
         /\ ticker_mppt' = FALSE
         /\ prev_arr_v' = 0
         /\ prev_arr_p' = 0
         /\ led_tracking' = 0
         /\ led_error' = 0
    ELSE IF s = "RUN"
    THEN /\ ticker_mppt' = TRUE
         /\ pwm_enable' = 1
         /\ led_tracking' = 1
         /\ led_error' = 0
         /\ UNCHANGED <<pwm_out, prev_arr_v, prev_arr_p>>
    ELSE /\ pwm_enable' = 0
         /\ pwm_out' = DUTY_NEUTRAL
         /\ ticker_mppt' = FALSE
         /\ prev_arr_v' = 0
         /\ prev_arr_p' = 0
         /\ led_error' = 1
         /\ led_tracking' = 0

event_update_state_machine ==
    /\ Dispatch("update_state_machine")
    /\ queue' = Tail(queue)
    /\ current_state' = NextState(current_state, is_error, set_mode, ack_fault)
    /\ IF AckBranch(current_state, ack_fault)
       THEN /\ is_error' = FALSE
            /\ ack_fault' = FALSE
            /\ set_mode' = FALSE
       ELSE UNCHANGED <<is_error, ack_fault, set_mode>>
    /\ EntryActions(current_state')
    /\ UNCHANGED <<led_heartbeat, ticker_pid, ticker_redlines, filt, ref_inp_v, reported,
                   ack_since_fault>>
    /\ UNCHANGED libvars

Next ==
    \/ handler_heartbeat
    \/ handler_measure_sensors
    \/ handler_check_redlines
    \/ handler_run_pid
    \/ handler_run_mppt
    \/ handler_process_can
    \/ event_heartbeat
    \/ event_measure_sensors
    \/ event_check_redlines
    \/ event_run_pid
    \/ event_run_mppt
    \/ \E can_id \in CanIds, can_mode \in BOOLEAN :
           event_process_can(can_id, can_mode)
    \/ event_update_state_machine

Spec == Init /\ [][Next]_vars

\* queue.dispatch_forever(): while a task is pending the oldest one is run
DispatchForever ==
    \/ event_heartbeat
    \/ event_measure_sensors
    \/ event_check_redlines
    \/ event_run_pid
    \/ event_run_mppt
    \/ \E can_id \in CanIds, can_mode \in BOOLEAN :
           event_process_can(can_id, can_mode)
    \/ event_update_state_machine

\* The loop never stops serving the queue.  A pending task can always be
\* run (queue # <<>> implies ENABLED DispatchForever in every reachable
\* state), so this is weak fairness of DispatchForever, WF_vars, written
\* out: again and again the queue is empty or a task is run.
SpecFair == Spec /\ ([]<>(queue = <<>>) \/ []<><<DispatchForever>>_vars)

(***************************************************************************)
(* event_update_state_machine as a function of the state and the three     *)
(* latched inputs: every state, every combination of inputs and outputs,   *)
(* with one evaluation pending.  A latched fault is one the redline task   *)
(* has reported.                                                           *)
(***************************************************************************)
InitSM ==
    /\ current_state \in States
    /\ is_error \in BOOLEAN
    /\ set_mode \in BOOLEAN
    /\ ack_fault \in BOOLEAN
    /\ pwm_enable \in {0, 1}
    /\ pwm_out \in {0, DUTY_NEUTRAL, MAX_DUTY}
    /\ led_tracking \in {0, 1}
    /\ led_error \in {0, 1}
    /\ ticker_mppt \in BOOLEAN
    /\ led_heartbeat = 0
    /\ ref_inp_v = 0
    /\ ticker_pid = TRUE
    /\ ticker_redlines = TRUE
    /\ queue = <<"update_state_machine">>
    /\ filt = EmptyVec
    /\ prev_arr_v = 0
    /\ prev_arr_p = 0
    /\ reported = IF is_error THEN <<INP_OVLO>> ELSE <<>>
    /\ ack_since_fault = FALSE
    /\ LibIdle

NextSM == event_update_state_machine

SpecSM == InitSM /\ [][NextSM]_vars

(***************************************************************************)
(* event_check_redlines as a function of the filtered measurements, the    *)
(* duty and the state it runs in: values below, at and above every bound   *)
(* it checks, with one redline task pending.  The duty is a finite value   *)
(* or an infinity here.                                                    *)
(***************************************************************************)
RedlineArrV == {-1, 0, 700, 701, 1300}
RedlineArrI == {-1, 0, 80, 81}
RedlineBattV == {700, 799, 800, 1300, 1301}
RedlineBattI == {-1, 0, 50, 51}
RedlineDuty == {DUTY_NEG_INF, 99, 100, DUTY_NEUTRAL, 900, 901, DUTY_POS_INF}

InitRedline ==
    /\ filt \in {Vec(av, ai, bv, bi) : av \in RedlineArrV, ai \in RedlineArrI,
                                      bv \in RedlineBattV, bi \in RedlineBattI}
    /\ pwm_out \in RedlineDuty
    /\ current_state \in States
    /\ pwm_enable \in {0, 1}
    /\ is_error \in BOOLEAN
    /\ set_mode = TRUE
    /\ ack_fault = FALSE
    /\ led_heartbeat = 0
    /\ led_tracking = 0
    /\ led_error = 0
    /\ ref_inp_v = 0
    /\ ticker_pid = TRUE
    /\ ticker_redlines = TRUE
    /\ ticker_mppt = TRUE
    /\ queue = <<"check_redlines">>
    /\ prev_arr_v = 0
    /\ prev_arr_p = 0
    /\ reported = <<>>
    /\ ack_since_fault = FALSE
    /\ LibIdle

NextRedline == event_check_redlines

SpecRedline == InitRedline /\ [][NextRedline]_vars

(***************************************************************************)
(* The controller classes on their own: a caller that constructs one       *)
(* object and calls its methods in any order.  The main program stands     *)
(* still.                                                                  *)
(***************************************************************************)
SysIdle ==
    /\ led_heartbeat = 0
    /\ led_tracking = 0
    /\ led_error = 0
    /\ is_error = FALSE
    /\ set_mode = TRUE
    /\ ack_fault = FALSE
    /\ current_state = "STOP"
    /\ ref_inp_v = 0
    /\ pwm_enable = 0
    /\ pwm_out = 0
    /\ ticker_pid = TRUE
    /\ ticker_redlines = TRUE
    /\ ticker_mppt = TRUE
    /\ queue = <<"update_state_machine">>
    /\ filt = EmptyVec
    /\ prev_arr_v = 0
    /\ prev_arr_p = 0
    /\ reported = <<>>
    /\ ack_since_fault = FALSE

\* output ranges given to the constructor; the last one has min > max
PidRanges == {<<-1, 1>>, <<0, 3>>, <<2, 2>>, <<1, -1>>}

PidCoeffs == {0, 1}

PidValues == (0 - MaxPidValue) .. MaxPidValue

InitPID ==
    /\ \E r \in PidRanges, p \in PidCoeffs, i \in PidCoeffs, d \in PidCoeffs :
           pid = PIDController(r[1], r[2], p, i, d)
    /\ pid_ret = 0
    /\ pid_errs = <<>>
    /\ PandOIdle
    /\ IcIdle
    /\ FuzzyIdle
    /\ mppt_kind = "PandO"
    /\ mppt_hist = "new"
    /\ FilterIdle
    /\ SysIdle

PID_step_pid(target, actual) ==
    /\ Len(pid_errs) < MaxPidSteps
    /\ pid' = step_pid(pid, target, actual).obj
    /\ pid_ret' = step_pid(pid, target, actual).ret
    /\ pid_errs' = Append(pid_errs, target - actual)
    /\ UNCHANGED <<mpptvars, filtervars>>
    /\ UNCHANGED sysvars

PID_reset_state ==
    /\ pid' = reset_state(pid)
    /\ pid_errs' = <<>>
    /\ UNCHANGED <<pid_ret, mpptvars, filtervars>>
    /\ UNCHANGED sysvars

NextPID ==
    \/ \E target \in PidValues, actual \in PidValues :
           PID_step_pid(target, actual)
    \/ PID_reset_state

SpecPID == InitPID /\ [][NextPID]_vars

PandOArrV == 0 .. MaxPandOValue

PandOArrI == 0 .. MaxPandOValue

PandOContexts == {Vec(av, ai, 1000, 0) : av \in PandOArrV, ai \in PandOArrI}

InitPandO ==
    /\ pando \in {PandO(ctx) : ctx \in PandOContexts}
    /\ IcIdle
    /\ FuzzyIdle
    /\ mppt_kind = "PandO"
    /\ mppt_hist = "new"
    /\ PidIdle
    /\ FilterIdle
    /\ SysIdle

PandO_InputContext(args) ==
    /\ pando' = PandO_input_context(pando, args)
    /\ UNCHANGED mppt_hist
    /\ UNCHANGED <<ic, fuzzy, mppt_kind, pidvars, filtervars>>
    /\ UNCHANGED sysvars

PandO_StepAlgorithm ==
    /\ PandO_step_algorithm(pando).reference_voltage
           \in (0 - MaxPandORef) .. MaxPandORef
    /\ pando' = PandO_step_algorithm(pando)
    /\ mppt_hist' = "stepped"
    /\ UNCHANGED <<ic, fuzzy, mppt_kind, pidvars, filtervars>>
    /\ UNCHANGED sysvars

PandO_ResetState ==
    /\ pando' = PandO_reset_state(pando)
    /\ mppt_hist' = IF mppt_hist = "stepped" THEN "reset" ELSE mppt_hist
    /\ UNCHANGED <<ic, fuzzy, mppt_kind, pidvars, filtervars>>
    /\ UNCHANGED sysvars

NextPandO ==
    \/ \E args \in PandOContexts : PandO_InputContext(args)
    \/ PandO_StepAlgorithm
    \/ PandO_ResetState

SpecPandO == InitPandO /\ [][NextPandO]_vars

\* array currents for IC (0.01 A): steps of 0.01 A stay inside the tolerance
\* band, 0.05 A at 0.2 V is on its edge, 0.06 A is outside
IcArrV == 0 .. MaxIcValue

IcArrI == {0, 1, 5, 6}

IcContexts == {Vec(av, ai, 1000, 0) : av \in IcArrV, ai \in IcArrI}

InitIC ==
    /\ ic \in {IC(ctx) : ctx \in IcContexts}
    /\ PandOIdle
    /\ FuzzyIdle
    /\ mppt_kind = "IC"
    /\ mppt_hist = "new"
    /\ PidIdle
    /\ FilterIdle
    /\ SysIdle

IC_InputContext(args) ==
    /\ ic' = IC_input_context(ic, args)
    /\ UNCHANGED mppt_hist
    /\ UNCHANGED <<pando, fuzzy, mppt_kind, pidvars, filtervars>>
    /\ UNCHANGED sysvars

IC_StepAlgorithm ==
    /\ IC_step_algorithm(ic).reference_voltage \in (0 - MaxIcRef) .. MaxIcRef
    /\ ic' = IC_step_algorithm(ic)
    /\ mppt_hist' = "stepped"
    /\ UNCHANGED <<pando, fuzzy, mppt_kind, pidvars, filtervars>>
    /\ UNCHANGED sysvars

IC_ResetState ==
    /\ ic' = IC_reset_state(ic)
    /\ mppt_hist' = IF mppt_hist = "stepped" THEN "reset" ELSE mppt_hist
    /\ UNCHANGED <<pando, fuzzy, mppt_kind, pidvars, filtervars>>
    /\ UNCHANGED sysvars

NextIC ==
    \/ \E args \in IcContexts : IC_InputContext(args)
    \/ IC_StepAlgorithm
    \/ IC_ResetState

SpecIC == InitIC /\ [][NextIC]_vars

\* array voltages (V) and currents (0.01 A) for Fuzzy: at 100 V the powers
\* are -25, -10, -5, -3, 0, 2, 3, 4, 10, 25 and 100 % of max_power
FuzzyArrV == {0, 100}

FuzzyArrI == {0 - 100, 0 - 40, 0 - 20, 0 - 12, 0, 8, 12, 16, 40, 100, 400}

FuzzyContexts == {Vec(av, ai, 100, 0) : av \in FuzzyArrV, ai \in FuzzyArrI}

InitFuzzy ==
    /\ fuzzy \in {Fuzzy(ctx) : ctx \in FuzzyContexts}
    /\ PandOIdle
    /\ IcIdle
    /\ mppt_kind = "Fuzzy"
    /\ mppt_hist = "new"
    /\ PidIdle
    /\ FilterIdle
    /\ SysIdle

Fuzzy_InputContext(args) ==
    /\ fuzzy' = Fuzzy_input_context(fuzzy, args)
    /\ UNCHANGED mppt_hist
    /\ UNCHANGED <<pando, ic, mppt_kind, pidvars, filtervars>>
    /\ UNCHANGED sysvars

Fuzzy_StepAlgorithm ==
    /\ Fuzzy_step_algorithm(fuzzy).reference_voltage
           \in (0 - MaxFuzzyRef) .. MaxFuzzyRef
    /\ fuzzy' = Fuzzy_step_algorithm(fuzzy)
    /\ mppt_hist' = "stepped"
    /\ UNCHANGED <<pando, ic, mppt_kind, pidvars, filtervars>>
    /\ UNCHANGED sysvars

Fuzzy_ResetState ==
    /\ fuzzy' = Fuzzy_reset_state(fuzzy)
    /\ mppt_hist' = IF mppt_hist = "stepped" THEN "reset" ELSE mppt_hist
    /\ UNCHANGED <<pando, ic, mppt_kind, pidvars, filtervars>>
    /\ UNCHANGED sysvars

NextFuzzy ==
    \/ \E args \in FuzzyContexts : Fuzzy_InputContext(args)
    \/ Fuzzy_StepAlgorithm
    \/ Fuzzy_ResetState

SpecFuzzy == InitFuzzy /\ [][NextFuzzy]_vars

(***************************************************************************)
(* A caller that holds one object of any of the three classes behind an    *)
(* MPPT reference: each call is dispatched on the class of the object.     *)
(***************************************************************************)
InitMPPT == InitPandO \/ InitIC \/ InitFuzzy

MPPT_input_context ==
    \/ mppt_kind = "PandO" /\ \E args \in PandOContexts : PandO_InputContext(args)
    \/ mppt_kind = "IC" /\ \E args \in IcContexts : IC_InputContext(args)
    \/ mppt_kind = "Fuzzy" /\ \E args \in FuzzyContexts : Fuzzy_InputContext(args)

MPPT_step_algorithm ==
    \/ mppt_kind = "PandO" /\ PandO_StepAlgorithm
    \/ mppt_kind = "IC" /\ IC_StepAlgorithm
    \/ mppt_kind = "Fuzzy" /\ Fuzzy_StepAlgorithm

MPPT_reset_state ==
    \/ mppt_kind = "PandO" /\ PandO_ResetState
    \/ mppt_kind = "IC" /\ IC_ResetState
    \/ mppt_kind = "Fuzzy" /\ Fuzzy_ResetState

NextMPPT ==
    \/ MPPT_input_context
    \/ MPPT_step_algorithm
    \/ MPPT_reset_state

SpecMPPT == InitMPPT /\ [][NextMPPT]_vars

(***************************************************************************)
(* One filter object used through the Filter interface: it is constructed  *)
(* with one of the constructors that take maxSamples, then addSample,      *)
(* getResult and clear are called in any order.  filter_ctor keeps the     *)
(* constructor arguments, samples the samples added since construction or  *)
(* the last clear, filter_ret the value of the last getResult.             *)
(***************************************************************************)
FilterCapacities == 1 .. MaxFilterCapacity

\* samples of -1.0, 0.0 and 2.0
FilterSamples == {0 - SAMPLE_ONE, 0, 2 * SAMPLE_ONE}

\* mAlpha of 0.2 (the default), 0.5 and 1.0
EmaAlphas == {2, 5, 10}

\* arguments of the five-argument constructor: 2.0, 100, 50, 0.1
KalmanArgs ==
    {[initialEstimate |-> 2 * SAMPLE_ONE, estimateUncertainty |-> 2000,
      measurementUncertainty |-> 1000, processNoiseVariance |-> 2]}

FilterCtors ==
    {[type |-> "Filter", maxSamples |-> n] : n \in FilterCapacities}
    \cup {[type |-> "SmaFilter", maxSamples |-> n] : n \in FilterCapacities}
    \cup {[type |-> "EmaFilter", maxSamples |-> n, alpha |-> a] :
              n \in FilterCapacities, a \in EmaAlphas}
    \cup {[type |-> "MedianFilter", maxSamples |-> n] : n \in FilterCapacities}
    \cup {[type |-> "KalmanFilter", maxSamples |-> n, nargs |-> 1] :
              n \in FilterCapacities}
    \cup {[type |-> "KalmanFilter", maxSamples |-> n, nargs |-> 5, args |-> k] :
              n \in FilterCapacities, k \in KalmanArgs}

\* the object a constructor call gives
NewFilter(c) ==
    CASE c.type = "Filter" -> Filter(c.maxSamples)
      [] c.type = "SmaFilter" -> SmaFilter(c.maxSamples)
      [] c.type = "EmaFilter" -> EmaFilter(c.maxSamples, c.alpha)
      [] c.type = "MedianFilter" -> MedianFilter(c.maxSamples)
      [] c.type = "KalmanFilter" ->
             IF c.nargs = 1 THEN KalmanFilterDefault(c.maxSamples)
             ELSE KalmanFilter(c.maxSamples, c.args.initialEstimate,
                               c.args.estimateUncertainty,
                               c.args.measurementUncertainty,
                               c.args.processNoiseVariance)

InitFilter ==
    /\ filter_ctor \in FilterCtors
    /\ filter = NewFilter(filter_ctor)
    /\ filter_ret = 0
    /\ samples = <<>>
    /\ heap = NewHeap(filter_ctor.type)
    /\ PidIdle
    /\ PandOIdle
    /\ IcIdle
    /\ FuzzyIdle
    /\ mppt_kind = "PandO"
    /\ mppt_hist = "new"
    /\ SysIdle

Filter_AddSample(sample) ==
    /\ Len(samples) < MaxFilterSamples
    /\ filter' \in {addSample(f, sample) : f \in Dangling(filter, heap)}
    /\ samples' = Append(samples, sample)
    /\ heap' = Touch(heap, addSample_access(filter))
    /\ UNCHANGED <<filter_ctor, filter_ret>>
    /\ UNCHANGED <<pidvars, mpptvars>>
    /\ UNCHANGED sysvars

Filter_GetResult ==
    /\ filter_ret' \in {getResult(f) : f \in Dangling(filter, heap)}
    /\ heap' = Touch(heap, getResult_access(filter))
    /\ UNCHANGED <<filter, filter_ctor, samples>>
    /\ UNCHANGED <<pidvars, mpptvars>>
    /\ UNCHANGED sysvars

Filter_Clear ==
    /\ filter' = clear(filter)
    /\ samples' = <<>>
    /\ heap' = Touch(heap, {})
    /\ UNCHANGED <<filter_ctor, filter_ret>>
    /\ UNCHANGED <<pidvars, mpptvars>>
    /\ UNCHANGED sysvars

NextFilter ==
    \/ \E sample \in FilterSamples : Filter_AddSample(sample)
    \/ Filter_GetResult
    \/ Filter_Clear

SpecFilter == InitFilter /\ [][NextFilter]_vars

(***************************************************************************)
(* The same object with shutdown among the calls: after it the object      *)
(* still exists and the caller may go on calling it.                       *)
(***************************************************************************)
Filter_Shutdown ==
    /\ heap' = shutdown(filter.type, heap)
    /\ UNCHANGED <<filter, filter_ctor, filter_ret, samples>>
    /\ UNCHANGED <<pidvars, mpptvars>>
    /\ UNCHANGED sysvars

NextShutdown ==
    \/ \E sample \in FilterSamples : Filter_AddSample(sample)
    \/ Filter_GetResult
    \/ Filter_Clear
    \/ Filter_Shutdown

SpecShutdown == InitFilter /\ [][NextShutdown]_vars

(***************************************************************************)
(* Claims.                                                                 *)
(***************************************************************************)

\* the transition table as the design states it
TransitionTable(s, e, m, a) ==
    CASE s = "STOP" /\ e -> "ERROR"
      [] s = "STOP" /\ ~e /\ m -> "RUN"
      [] s = "STOP" /\ ~e /\ ~m -> "STOP"
      [] s = "RUN" /\ e -> "ERROR"
      [] s = "RUN" /\ ~e /\ ~m -> "STOP"
      [] s = "RUN" /\ ~e /\ m -> "RUN"
      [] s = "ERROR" /\ a -> "STOP"
      [] s = "ERROR" /\ ~a -> "ERROR"

\* C1: for every state and every combination of is_error, set_mode and
\* ack_fault, one run of event_update_state_machine ends in the state the
\* transition table gives.
C1_TransitionTable ==
    [][event_update_state_machine =>
         current_state' =
             TransitionTable(current_state, is_error, set_mode, ack_fault)]_vars

\* an evaluation has run and ended in ERROR although a run was requested
C1_Witness ==
    /\ queue = <<>>
    /\ current_state = "ERROR"
    /\ is_error /\ set_mode /\ ~ack_fault

\* C2: a run of event_update_state_machine that takes ERROR to STOP sets
\* is_error, ack_fault and set_mode to false; every other run leaves the three
\* flags unchanged.
C2_FlagsClearedOnlyOnAck ==
    [][event_update_state_machine =>
         IF current_state = "ERROR" /\ current_state' = "STOP"
         THEN ~is_error' /\ ~ack_fault' /\ ~set_mode'
         ELSE UNCHANGED <<is_error, ack_fault, set_mode>>]_vars

\* a fault was reported, and the acknowledged evaluation has cleared the flags
C2_Witness ==
    /\ queue = <<>>
    /\ reported # <<>>
    /\ current_state = "STOP"
    /\ ~is_error /\ ~ack_fault /\ ~set_mode

\* the outputs the design assigns to state s
OutputsOf(s) ==
    CASE s = "RUN" ->
           pwm_enable = 1 /\ ticker_mppt /\ led_tracking = 1 /\ led_error = 0
      [] s = "STOP" ->
           /\ pwm_enable = 0 /\ pwm_out = DUTY_NEUTRAL /\ ~ticker_mppt
           /\ led_tracking = 0 /\ led_error = 0
      [] s = "ERROR" ->
           /\ pwm_enable = 0 /\ pwm_out = DUTY_NEUTRAL /\ ~ticker_mppt
           /\ led_error = 1 /\ led_tracking = 0

\* C3: after every completed run of event_update_state_machine the outputs
\* (pwm_enable, duty, MPPT ticker, tracking and error LED) match the resulting
\* state.
C3_OutputsMatchState ==
    [][event_update_state_machine => OutputsOf(current_state)']_vars

\* an evaluation has run on a reported fault and left the outputs of ERROR
C3_Witness ==
    /\ queue = <<>>
    /\ reported # <<>>
    /\ current_state = "ERROR"
    /\ led_error = 1 /\ led_tracking = 0
    /\ pwm_enable = 0 /\ pwm_out = DUTY_NEUTRAL /\ ~ticker_mppt

AllCodes ==
    {INP_UVLO, INP_OVLO, INP_UILO, INP_OILO, OUT_UVLO, OUT_OVLO, OUT_UILO,
     OUT_OILO, INP_OUT_INV, PWM_ULO, PWM_OLO}

\* the bound each error code stands for, as the error table names it
Violated(code, f, pwm) ==
    CASE code = INP_UVLO -> f.arr_v < MIN_INP_VOLT
      [] code = INP_OVLO -> f.arr_v > MAX_INP_VOLT
      [] code = INP_UILO -> f.arr_i < MIN_INP_CURR
      [] code = INP_OILO -> f.arr_i > MAX_INP_CURR
      [] code = OUT_UVLO -> f.batt_v < MIN_OUT_VOLT
      [] code = OUT_OVLO -> f.batt_v > MAX_OUT_VOLT
      [] code = OUT_UILO -> f.batt_i < MIN_OUT_CURR
      [] code = OUT_OILO -> f.batt_i > MAX_OUT_CURR
      [] code = INP_OUT_INV -> ~(f.batt_v > f.arr_v)
      [] code = PWM_ULO -> pwm < MIN_DUTY
      [] code = PWM_OLO -> pwm > MAX_DUTY

ViolatedCodes(f, pwm) == {code \in AllCodes : Violated(code, f, pwm)}

SM == "update_state_machine"

\* C4: end to end.  From STOP with only set_mode set an evaluation gives RUN
\* with actuation enabled and the tracking LED on; a redline task that then sees
\* the array at 75.0 V disables actuation, latches is_error and reports 101,
\* the fault stays latched with an evaluation pending, and that evaluation
\* gives ERROR; an evaluation in ERROR with ack_fault set gives STOP with the
\* three flags false.
C4_EndToEnd ==
    /\ [][(/\ event_update_state_machine
           /\ current_state = "STOP"
           /\ set_mode /\ ~is_error /\ ~ack_fault)
          => (current_state' = "RUN" /\ pwm_enable' = 1 /\ led_tracking' = 1)]_vars
    /\ [][(/\ event_check_redlines
           /\ current_state = "RUN"
           /\ filt.arr_v = 750)
          => (/\ pwm_enable' = 0
              /\ is_error'
              /\ INP_OVLO \in Range(reported')
              /\ current_state' = "RUN")]_vars
    /\ [](current_state = "RUN" /\ is_error => Count(queue, SM) >= 1)
    /\ [][(event_update_state_machine /\ current_state = "RUN" /\ is_error)
          => current_state' = "ERROR"]_vars
    /\ [][(event_update_state_machine /\ current_state = "ERROR" /\ ack_fault)
          => (/\ current_state' = "STOP"
              /\ ~is_error' /\ ~ack_fault' /\ ~set_mode')]_vars

\* the overvoltage was reported and the acknowledged fault has been cleared
C4_Witness ==
    /\ filt = OverVoltVec
    /\ INP_OVLO \in Range(reported)
    /\ current_state = "STOP"
    /\ ~is_error /\ ~ack_fault /\ ~set_mode
    /\ ack_since_fault

\* C5: in every state and for every measurement vector and duty with at least
\* one violated bound, one run of event_check_redlines ends with pwm_enable = 0,
\* is_error set and a state-machine evaluation pending in the queue.
C5_RedlineFailSafe ==
    [][(event_check_redlines /\ ViolatedCodes(filt, pwm_out) # {})
       => (pwm_enable' = 0 /\ is_error' /\ Count(queue', SM) >= 1)]_vars

\* a redline task has stopped a running, enabled converter with no fault latched
C5_Witness ==
    /\ current_state = "RUN"
    /\ reported = <<OUT_OILO>>
    /\ pwm_enable = 0
    /\ is_error
    /\ queue = <<SM>>

C7_DisabledWhileFaultLatched ==
    /\ [][(event_check_redlines /\ ViolatedCodes(filt, pwm_out) # {})
          => (is_error' /\ pwm_enable' = 0)]_vars
    /\ [][(is_error /\ ~is_error')
          => (/\ event_update_state_machine
              /\ current_state = "ERROR"
              /\ current_state' = "STOP")]_vars
    /\ [](is_error => pwm_enable = 0)

\* a fault is latched while the state is still RUN with run requested, an
\* evaluation and a PID step are pending, and actuation is off
C7_Witness ==
    /\ is_error
    /\ current_state = "RUN"
    /\ set_mode
    /\ Count(queue, SM) >= 1
    /\ Count(queue, "run_pid") >= 1
    /\ pwm_enable = 0

C9_OncePerTick ==
    [][(event_check_redlines /\ ViolatedCodes(filt, pwm_out) # {})
       => (/\ Count(queue', SM) = Count(queue, SM) + 1
           /\ RedlineResult(filt, pwm_out, pwm_enable, is_error).disables = 1)]_vars

\* C9 amended: a redline task disables actuation and enqueues an evaluation
\* once for each failed check; with at least one failed check pwm_enable ends
\* at 0 and is_error set, however many failed.
C9_OncePerFailedCheck ==
    [][event_check_redlines
       => LET k == Cardinality(ViolatedCodes(filt, pwm_out))
              r == RedlineResult(filt, pwm_out, pwm_enable, is_error)
          IN  /\ Count(queue', SM) = Count(queue, SM) + k
              /\ r.disables = k
              /\ k >= 1 => (pwm_enable' = 0 /\ is_error')]_vars

\* a redline task on empty filters failed two checks and left two evaluations
C9_Witness ==
    /\ reported = <<OUT_UVLO, INP_OUT_INV>>
    /\ Count(queue, SM) = 2
    /\ pwm_enable = 0
    /\ is_error

\* C10: after an evaluation has completed with STOP or ERROR (the MPPT ticker
\* is then detached) and until the state is RUN again, no step moves the number
\* of pending PID or MPPT step tasks up.
C10_NoStepTasksWhileStopped ==
    [][(current_state \in {"STOP", "ERROR"} /\ ~ticker_mppt)
       => (/\ Count(queue', "run_pid") <= Count(queue, "run_pid")
           /\ Count(queue', "run_mppt") <= Count(queue, "run_mppt"))]_vars

(***************************************************************************)
(* C11: an MPPT or PID step task that runs while current_state is STOP or  *)
(* ERROR does not write the PWM duty cycle, so the duty stays at the       *)
(* neutral value the entry action set.                                     *)
(***************************************************************************)
C11_NoDutyWriteOutsideRun ==
    [][((event_run_pid \/ event_run_mppt)
            /\ current_state \in {"STOP", "ERROR"})
          => pwm_out' = pwm_out]_vars

(***************************************************************************)
(* C12: every state-machine evaluation that ends in STOP or ERROR leaves   *)
(* the MPPT's remembered voltage and power and its reference voltage at    *)
(* their initial values (zero).                                            *)
(***************************************************************************)
C12_EntryResetsControllers ==
    [][(event_update_state_machine /\ current_state' \in {"STOP", "ERROR"})
          => (prev_arr_v' = 0 /\ prev_arr_p' = 0 /\ ref_inp_v' = 0)]_vars

(***************************************************************************)
(* C13: between tasks, from startup on, the MPPT ticker is attached iff    *)
(* the state is RUN, the tracking LED is on iff the state is RUN and the   *)
(* error LED is on iff the state is ERROR.                                 *)
(***************************************************************************)
C13_MooreOutputs ==
    /\ ticker_mppt <=> (current_state = "RUN")
    /\ (led_tracking = 1) <=> (current_state = "RUN")
    /\ (led_error = 1) <=> (current_state = "ERROR")

(***************************************************************************)
(* C14: processing a SET_MODE message sets set_mode to the commanded mode, *)
(* processing an ACK_FAULT message sets ack_fault, each enqueues exactly   *)
(* one state-machine evaluation; any other message changes neither flag    *)
(* and enqueues nothing.                                                   *)
(***************************************************************************)
C14_CanIngestion ==
    [][\A can_id \in CanIds, can_mode \in BOOLEAN :
          event_process_can(can_id, can_mode) =>
              /\ (can_id = CAN_SET_MODE) =>
                     /\ set_mode' = can_mode
                     /\ ack_fault' = ack_fault
                     /\ queue' = Append(Tail(queue), SM)
              /\ (can_id = CAN_ACK_FAULT) =>
                     /\ ack_fault' = TRUE
                     /\ set_mode' = set_mode
                     /\ queue' = Append(Tail(queue), SM)
              /\ (can_id \notin {CAN_SET_MODE, CAN_ACK_FAULT}) =>
                     /\ set_mode' = set_mode
                     /\ ack_fault' = ack_fault
                     /\ queue' = Tail(queue)]_vars

(***************************************************************************)
(* C15: an interrupt handler only appends its task to the queue (the       *)
(* heartbeat handler also toggles its LED); the filter results, the MPPT   *)
(* state, the three latched flags and current_state change only in a step  *)
(* that takes the oldest task off the queue.                               *)
(***************************************************************************)
SharedState ==
    <<filt, ref_inp_v, prev_arr_v, prev_arr_p, is_error, set_mode, ack_fault,
      current_state>>

HandlerStep(task) ==
    /\ queue' = Append(queue, task)
    /\ UNCHANGED SharedState
    /\ UNCHANGED <<pwm_enable, pwm_out, led_tracking, led_error, ticker_mppt,
                   ticker_pid, ticker_redlines>>

C15_HandlersOnlyEnqueue ==
    [][/\ handler_heartbeat =>
              (HandlerStep("heartbeat") /\ led_heartbeat' = 1 - led_heartbeat)
       /\ handler_measure_sensors =>
              (HandlerStep("measure_sensors") /\ UNCHANGED led_heartbeat)
       /\ handler_check_redlines =>
              (HandlerStep("check_redlines") /\ UNCHANGED led_heartbeat)
       /\ handler_run_pid =>
              (HandlerStep("run_pid") /\ UNCHANGED led_heartbeat)
       /\ handler_run_mppt =>
              (HandlerStep("run_mppt") /\ UNCHANGED led_heartbeat)
       /\ handler_process_can =>
              (HandlerStep("process_can") /\ UNCHANGED led_heartbeat)
       /\ (SharedState' # SharedState) =>
              /\ queue # <<>>
              /\ Len(queue') >= Len(queue) - 1
              /\ SubSeq(queue', 1, Len(queue) - 1) = Tail(queue)]_vars

\* two interrupts have fired since the last task: their tasks are pending,
\* the heartbeat LED is toggled, the filters are not yet sampled
C15_Witness ==
    /\ queue = <<"heartbeat", "measure_sensors">>
    /\ led_heartbeat = 1
    /\ filt = EmptyVec
    /\ current_state = "RUN"

(***************************************************************************)
(* C16: every duty value a task has written to the PWM is a defined        *)
(* number in [0.0, 1.0].                                                   *)
(***************************************************************************)
C16_DutyInRange ==
    IsFinite(pwm_out) /\ pwm_out >= 0 /\ pwm_out <= DUTY_ONE

(***************************************************************************)
(* C17: for a PIDController constructed with min_output <= max_output,     *)
(* every step_pid returns a value in [min_output, max_output], whatever    *)
(* the target, the actual and the calls made before.                       *)
(***************************************************************************)
C17_OutputInRange ==
    [][\A target \in PidValues, actual \in PidValues :
          (PID_step_pid(target, actual) /\ pid.min_output <= pid.max_output)
              => (pid_ret' >= pid.min_output /\ pid_ret' <= pid.max_output)]_vars

\* the integral has carried the unclamped output above max_output
C17_Witness ==
    /\ pid.min_output = 0 - 1
    /\ pid.max_output = 1
    /\ pid.i_coeff = 1
    /\ pid.p_coeff = 0
    /\ pid.d_coeff = 0
    /\ pid.sum_error = 4
    /\ pid_ret = 1

(***************************************************************************)
(* C18: step_pid takes error = target - actual, adds it to sum_error       *)
(* (also when the output is clamped), sets delta_error to error minus the  *)
(* previous error, returns p*error + i*sum_error + d*delta_error clamped   *)
(* to the output range and stores error as prev_error; after n calls since *)
(* construction or reset_state sum_error is the sum of the n errors and    *)
(* prev_error is the last of them.                                         *)
(***************************************************************************)
RECURSIVE SumSeq(_)
SumSeq(q) == IF q = <<>> THEN 0 ELSE Head(q) + SumSeq(Tail(q))

ClampTo(x, lo, hi) == IF x < lo THEN lo ELSE IF x > hi THEN hi ELSE x

C18_StepPid ==
    /\ [][\A target \in PidValues, actual \in PidValues :
             PID_step_pid(target, actual) =>
                 LET error == target - actual
                 IN  /\ pid'.sum_error = pid.sum_error + error
                     /\ pid'.delta_error = error - pid.prev_error
                     /\ pid'.prev_error = error
                     /\ (pid.min_output <= pid.max_output) =>
                            pid_ret' = ClampTo((pid.p_coeff * error)
                                           + (pid.i_coeff * pid'.sum_error)
                                           + (pid.d_coeff * pid'.delta_error),
                                               pid.min_output, pid.max_output)]_vars
    /\ [](/\ pid.sum_error = SumSeq(pid_errs)
          /\ pid.prev_error = IF pid_errs = <<>> THEN 0
                              ELSE pid_errs[Len(pid_errs)])

\* two calls with error 2, both clamped at max_output: the integral is 4
C18_Witness ==
    /\ pid_errs = <<2, 2>>
    /\ pid.sum_error = 4
    /\ pid.prev_error = 2
    /\ pid.delta_error = 0
    /\ pid.i_coeff = 1
    /\ pid.p_coeff = 1
    /\ pid.max_output = 1
    /\ pid.min_output = 0 - 1
    /\ pid_ret = 1

(***************************************************************************)
(* C19: reset_state zeroes prev_error, sum_error and delta_error and       *)
(* leaves the output range and the coefficients alone; a second            *)
(* reset_state changes nothing more, and a step_pid after it returns what  *)
(* the same call returns on a newly constructed controller of the same     *)
(* configuration.                                                          *)
(***************************************************************************)
C19_ResetState ==
    [][PID_reset_state =>
          /\ pid'.prev_error = 0
          /\ pid'.sum_error = 0
          /\ pid'.delta_error = 0
          /\ pid'.min_output = pid.min_output
          /\ pid'.max_output = pid.max_output
          /\ pid'.p_coeff = pid.p_coeff
          /\ pid'.i_coeff = pid.i_coeff
          /\ pid'.d_coeff = pid.d_coeff
          /\ reset_state(pid') = pid'
          /\ \A target \in PidValues, actual \in PidValues :
                 step_pid(pid', target, actual).ret
                     = step_pid(PIDController(pid.min_output, pid.max_output,
                                              pid.p_coeff, pid.i_coeff,
                                              pid.d_coeff),
                                target, actual).ret]_vars

\* a controller that has returned a clamped output and was reset afterwards
C19_Witness ==
    /\ pid_errs = <<>>
    /\ pid_ret = 3
    /\ pid.max_output = 3
    /\ pid.i_coeff = 1
    /\ pid.sum_error = 0
    /\ pid.prev_error = 0
    /\ pid.delta_error = 0

(***************************************************************************)
(* C20: PandO::step_algorithm moves the reference by +STRIDE when the      *)
(* power and the voltage have both risen since the previous step, by       *)
(* -STRIDE when the power has risen and the voltage has fallen, by         *)
(* -STRIDE when the power has not risen and the voltage has risen, by      *)
(* +STRIDE when the power has not risen and the voltage has fallen, and    *)
(* not at all when the voltage is the same; it then remembers the voltage  *)
(* and the power.  The remembered values are zero after construction and   *)
(* after reset_state.                                                      *)
(***************************************************************************)
C20_DecisionTable ==
    /\ pando.prev_array_voltage = 0 /\ pando.prev_array_power = 0
    /\ [][PandO_ResetState =>
             (pando'.prev_array_voltage = 0 /\ pando'.prev_array_power = 0)]_vars
    /\ [][PandO_StepAlgorithm =>
             LET power == pando.array_voltage * pando.array_current
                 delta_voltage == pando.array_voltage - pando.prev_array_voltage
                 delta_power == power - pando.prev_array_power
                 change == pando'.reference_voltage - pando.reference_voltage
             IN  /\ (delta_power > 0 /\ delta_voltage > 0) => change = PANDO_STRIDE
                 /\ (delta_power > 0 /\ delta_voltage < 0) => change = 0 - PANDO_STRIDE
                 /\ (delta_power <= 0 /\ delta_voltage > 0) => change = 0 - PANDO_STRIDE
                 /\ (delta_power <= 0 /\ delta_voltage < 0) => change = PANDO_STRIDE
                 /\ (delta_voltage = 0) => change = 0
                 /\ pando'.prev_array_voltage = pando.array_voltage
                 /\ pando'.prev_array_power = power]_vars

\* after a step in which the voltage rose from 0 to 0.2 V at zero power
C20_Witness ==
    /\ pando.array_voltage = 2
    /\ pando.array_current = 0
    /\ pando.prev_array_voltage = 2
    /\ pando.prev_array_power = 0
    /\ pando.reference_voltage = 0 - PANDO_STRIDE

(***************************************************************************)
(* C21: IC::step_algorithm takes D = delta_I * V + I * delta_V against the *)
(* previous step and leaves the reference alone when |D| < ERROR, raises   *)
(* it by STRIDE when D > ERROR and lowers it by STRIDE when D < -ERROR; in *)
(* every case it then remembers the voltage and the current.               *)
(***************************************************************************)
C21_Discriminant ==
    [][IC_StepAlgorithm =>
          LET D == ((ic.array_current - ic.prev_array_current) * ic.array_voltage)
                       + (ic.array_current
                              * (ic.array_voltage - ic.prev_array_voltage))
              change == ic'.reference_voltage - ic.reference_voltage
          IN  /\ (D < IC_ERROR /\ D > 0 - IC_ERROR) => change = 0
              /\ (D > IC_ERROR) => change = IC_STRIDE
              /\ (D < 0 - IC_ERROR) => change = 0 - IC_STRIDE
              /\ ic'.prev_array_voltage = ic.array_voltage
              /\ ic'.prev_array_current = ic.array_current]_vars

\* raised once (0.2 V, 0.06 A after construction: D = 0.024), then a step of
\* 0.01 A less (D = -0.002, inside the band) has left the reference alone
C21_Witness ==
    /\ ic.reference_voltage = IC_STRIDE
    /\ ic.array_voltage = 2
    /\ ic.prev_array_voltage = 2
    /\ ic.array_current = 5
    /\ ic.prev_array_current = 5

(***************************************************************************)
(* C22: the first Fuzzy::step_algorithm after construction or reset_state  *)
(* sets the reference to 0 whatever the rule table holds for its inputs;   *)
(* every later call adds to the reference the output the rule table gives  *)
(* for the pair of bucket indices of that step.                            *)
(***************************************************************************)
RuleTableDelta(current_bucket, power_bucket) ==
    Fuzzy_output[Fuzzy_ruleset[current_bucket + 1][power_bucket + 1] + 1]

PowerBucket(pct) ==
    IF pct <= (0 - 10) * FUZZY_PCT THEN 0
    ELSE IF pct <= (0 - 3) * FUZZY_PCT THEN 1
    ELSE IF pct < 3 * FUZZY_PCT THEN 2
    ELSE IF pct < 10 * FUZZY_PCT THEN 3
    ELSE 4

CurrentBucket(pct) ==
    IF pct <= (0 - 1) * FUZZY_PCT THEN 0
    ELSE IF pct < 1 * FUZZY_PCT THEN 1
    ELSE 2

C23_Buckets ==
    [][(Fuzzy_StepAlgorithm /\ fuzzy.has_started) =>
          /\ Fuzzy_idx_dim(Fuzzy_in_0(fuzzy), Fuzzy_input_0)
                 = PowerBucket(Fuzzy_in_0(fuzzy))
          /\ Fuzzy_idx_dim(Fuzzy_in_1(fuzzy), Fuzzy_input_1)
                 = CurrentBucket(Fuzzy_in_1(fuzzy))]_vars

(***************************************************************************)
(* C24: for PandO, IC and Fuzzy, reset_state after any calls returns the   *)
(* reference and the remembered values to what the constructor sets, and   *)
(* one step_algorithm on a context given after the reset changes the       *)
(* reference by as much as the first step_algorithm of a new object on     *)
(* that context.                                                           *)
(***************************************************************************)
PandO_delta(o, args) ==
    PandO_step_algorithm(PandO_input_context(o, args)).reference_voltage
        - o.reference_voltage

IC_delta(o, args) ==
    IC_step_algorithm(IC_input_context(o, args)).reference_voltage
        - o.reference_voltage

Fuzzy_delta(o, args) ==
    Fuzzy_step_algorithm(Fuzzy_input_context(o, args)).reference_voltage
        - o.reference_voltage

C24_ResetLikeNew ==
    /\ [][PandO_ResetState =>
             /\ pando'.reference_voltage = 0
             /\ pando'.prev_array_voltage = 0
             /\ pando'.prev_array_power = 0
             /\ \A args \in PandOContexts, junk \in PandOContexts :
                    PandO_delta(pando', args) = PandO_delta(PandO(junk), args)]_vars
    /\ [][IC_ResetState =>
             /\ ic'.reference_voltage = 0
             /\ ic'.prev_array_voltage = 0
             /\ ic'.prev_array_current = 0
             /\ \A args \in IcContexts, junk \in IcContexts :
                    IC_delta(ic', args) = IC_delta(IC(junk), args)]_vars
    /\ [][Fuzzy_ResetState =>
             /\ fuzzy'.reference_voltage = 0
             /\ fuzzy'.prev_array_current = 0
             /\ fuzzy'.prev_array_power = 0
             /\ ~fuzzy'.has_started
             /\ \A args \in FuzzyContexts, junk \in FuzzyContexts :
                    Fuzzy_delta(fuzzy', args) = Fuzzy_delta(Fuzzy(junk), args)]_vars

\* a PandO that has stepped (and remembers 0.2 V) was reset
C24_Witness ==
    /\ mppt_kind = "PandO"
    /\ mppt_hist = "reset"
    /\ pando.array_voltage = 2
    /\ pando.array_current = 2
    /\ pando.prev_array_voltage = 0
    /\ pando.prev_array_power = 0
    /\ pando.reference_voltage = 0

(***************************************************************************)
(* C25: for every filter class, getResult before any addSample, and right  *)
(* after clear, is a defined finite value: 0.0, or for KalmanFilter the    *)
(* initial estimate; it does not depend on any element of the buffer       *)
(* (none is inside the window).                                            *)
(***************************************************************************)
InitialEstimate(c) ==
    IF c.nargs = 1 THEN KALMAN_ESTIMATE ELSE c.args.initialEstimate

HasBuffer(f) == f.type \in {"SmaFilter", "MedianFilter"}

C25_DefinedWhenEmpty ==
    samples = <<>> =>
        /\ getResult(filter) # FLOAT_UNINIT
        /\ getResult(filter) =
               IF filter.type = "KalmanFilter" THEN InitialEstimate(filter_ctor)
               ELSE 0
        /\ HasBuffer(filter) =>
               getResult([filter EXCEPT !.mDataBuffer = NewFloats(filter.mMaxSamples)])
                   = getResult(filter)

(***************************************************************************)
(* C26: after n >= 1 addSample calls since construction or clear on a      *)
(* MedianFilter of capacity c, getResult is the median of the last         *)
(* min(n, c) samples (the middle one in order, or the average of the two   *)
(* middle ones for an even window), and getResult leaves the filter as it  *)
(* was.                                                                    *)
(***************************************************************************)
Min(a, b) == IF a < b THEN a ELSE b

LastN(q, k) == SubSeq(q, (Len(q) - k) + 1, Len(q))

\* the j-th smallest element of q
OrderStat(q, j) ==
    CHOOSE x \in {q[i] : i \in DOMAIN q} :
        /\ Cardinality({i \in DOMAIN q : q[i] < x}) < j
        /\ Cardinality({i \in DOMAIN q : q[i] <= x}) >= j

Median(q) ==
    IF Len(q) % 2 = 1 THEN OrderStat(q, (Len(q) + 1) \div 2)
    ELSE (OrderStat(q, Len(q) \div 2) + OrderStat(q, (Len(q) \div 2) + 1)) \div 2

Window(f) == LastN(samples, Min(Len(samples), f.mMaxSamples))

C26_MedianOfWindow ==
    /\ [](filter.type = "MedianFilter" /\ Len(samples) >= 1 =>
              getResult(filter) = Median(Window(filter)))
    /\ [][Filter_GetResult /\ filter.type = "MedianFilter" /\ Len(samples) >= 1 =>
              /\ filter' = filter
              /\ filter_ret' = Median(Window(filter))]_vars

\* capacity 2, samples -1.0, 2.0, 0.0: the window is 2.0, 0.0 and the
\* result 1.0 is neither a sample nor the median of all three
C26_Witness ==
    /\ filter.type = "MedianFilter"
    /\ filter.mMaxSamples = 2
    /\ samples = <<0 - SAMPLE_ONE, 2 * SAMPLE_ONE, 0>>
    /\ filter_ret = SAMPLE_ONE

(***************************************************************************)
(* C27: in SmaFilter, after any addSample and clear calls, mSum is the sum *)
(* of the last min(n, capacity) samples added since the last clear,        *)
(* mNumSamples is that minimum and never above the capacity, and getResult *)
(* is the sum divided by the count, or 0.0 when the count is 0.            *)
(***************************************************************************)
C27_RunningSum ==
    /\ [](filter.type = "SmaFilter" =>
              /\ filter.mSum = SumSeq(Window(filter))
              /\ filter.mNumSamples = Len(Window(filter))
              /\ filter.mNumSamples <= filter.mMaxSamples)
    /\ [][Filter_GetResult /\ filter.type = "SmaFilter" =>
              filter_ret' = IF filter.mNumSamples = 0 THEN 0
                            ELSE SumSeq(Window(filter)) \div Len(Window(filter))]_vars

\* capacity 3, fourth sample since the clear: the first -1.0 has left the
\* sum, the result is (2.0 + 2.0 + (-1.0)) / 3
C27_Witness ==
    /\ filter.type = "SmaFilter"
    /\ filter.mMaxSamples = 3
    /\ samples = <<0 - SAMPLE_ONE, 2 * SAMPLE_ONE, 2 * SAMPLE_ONE, 0 - SAMPLE_ONE>>
    /\ filter.mSum = 3 * SAMPLE_ONE
    /\ filter_ret = SAMPLE_ONE

(***************************************************************************)
(* C28: for every filter class, clear keeps the storage and puts the       *)
(* filter back to its initial defaults: the samples that follow a clear    *)
(* give the getResult values they give to a new filter constructed with    *)
(* the same arguments (for KalmanFilter the initial estimate, the          *)
(* uncertainties and the process noise given to the constructor).          *)
(***************************************************************************)
RECURSIVE Feed(_, _)
Feed(f, q) == IF q = <<>> THEN f ELSE Feed(addSample(f, Head(q)), Tail(q))

\* the sample sequences of up to two samples
ShortSeqs ==
    {<<>>} \cup {<<a>> : a \in FilterSamples}
           \cup {<<a, b>> : a \in FilterSamples, b \in FilterSamples}

C28_ClearLikeNew ==
    [][Filter_Clear =>
           /\ HasBuffer(filter) =>
                  DOMAIN filter'.mDataBuffer = DOMAIN filter.mDataBuffer
           /\ \A q \in ShortSeqs :
                  getResult(Feed(filter', q))
                      = getResult(Feed(NewFilter(filter_ctor), q))]_vars

(***************************************************************************)
(* C30: between tasks, pwm_enable = 1 only while current_state is RUN and  *)
(* is_error is false: the gate driver is never enabled in STOP or ERROR,   *)
(* nor while a fault is latched.                                           *)
(***************************************************************************)
C30_EnableOnlyInRun ==
    pwm_enable = 1 => (current_state = "RUN" /\ ~is_error)

\* the converter runs enabled, an MPPT step has moved the reference
C30_Witness ==
    /\ pwm_enable = 1
    /\ current_state = "RUN"
    /\ ~is_error
    /\ ref_inp_v # 0

(***************************************************************************)
(* C29: when a redline check fails while the state is STOP or RUN, the     *)
(* fault is latched and an evaluation of the state machine is enqueued; no *)
(* task clears is_error before that evaluation (only an evaluation in      *)
(* ERROR does), an evaluation is pending for as long as the fault is       *)
(* latched in STOP or RUN, and the evaluation ends in ERROR.  With the     *)
(* queue dispatched fairly, every fault in STOP or RUN is followed by the  *)
(* ERROR state.                                                            *)
(***************************************************************************)
FaultPending == is_error /\ current_state \in {"STOP", "RUN"}

C29_FaultLeadsToError ==
    /\ [][(/\ event_check_redlines
           /\ current_state \in {"STOP", "RUN"}
           /\ RedlineResult(filt, pwm_out, pwm_enable, is_error).calls >= 1)
          => (is_error' /\ Count(queue', SM) >= 1)]_vars
    /\ [](FaultPending => Count(queue, SM) >= 1)
    /\ [][(is_error /\ ~is_error')
          => (event_update_state_machine /\ current_state = "ERROR")]_vars
    /\ [][(event_update_state_machine /\ FaultPending)
          => current_state' = "ERROR"]_vars
    /\ (FaultPending ~> current_state = "ERROR")

\* a fault latched in RUN, its evaluation behind another task in the queue
C29_Witness ==
    /\ is_error
    /\ current_state = "RUN"
    /\ Len(queue) >= 2
    /\ Head(queue) # SM
    /\ Count(queue, SM) >= 1

(***************************************************************************)
(* C31: between tasks, current_state = ERROR implies is_error; is_error is *)
(* cleared only by the evaluation that takes the state from ERROR to STOP, *)
(* and by no other task.                                                   *)
(***************************************************************************)
C31_ErrorMeansLatched ==
    /\ [](current_state = "ERROR" => is_error)
    /\ [][(is_error /\ ~is_error')
          => (/\ event_update_state_machine
              /\ current_state = "ERROR"
              /\ current_state' = "STOP")]_vars

\* in ERROR with the fault latched, the acknowledgement waiting to be evaluated
C31_Witness ==
    /\ current_state = "ERROR"
    /\ is_error
    /\ ack_fault
    /\ queue # <<>>
    /\ Head(queue) = SM

(***************************************************************************)
(* C32: the state never goes from ERROR to RUN in one step; an evaluation  *)
(* that acknowledges a fault ends in STOP with set_mode false, whatever    *)
(* set_mode was; the state becomes RUN only by an evaluation in STOP that  *)
(* finds set_mode true, and set_mode can become true again only in a       *)
(* SET_MODE task whose message commands RUN.                                *)
(***************************************************************************)
C32_NoDirectRestart ==
    /\ [][current_state = "ERROR" => current_state' # "RUN"]_vars
    /\ [][(event_update_state_machine /\ current_state = "ERROR" /\ ack_fault)
          => (current_state' = "STOP" /\ ~set_mode' /\ ~is_error')]_vars
    /\ [][(current_state # "RUN" /\ current_state' = "RUN")
          => (event_update_state_machine /\ current_state = "STOP" /\ set_mode)]_vars
    /\ [][(~set_mode /\ set_mode') => event_process_can(CAN_SET_MODE, TRUE)]_vars

\* a fault has been acknowledged and the acknowledgement consumed: STOP with
\* set_mode cleared, although set_mode was true when the fault occurred
C32_Witness ==
    /\ current_state = "STOP"
    /\ ack_since_fault
    /\ ~ack_fault
    /\ ~is_error
    /\ ~set_mode

MeasurementCodes == AllCodes \ {PWM_ULO, PWM_OLO}

C34_EmptyFiltersFault ==
    /\ [][(event_check_redlines /\ filt = EmptyVec)
          => (/\ Range(reported') \cap MeasurementCodes = {OUT_UVLO, INP_OUT_INV}
              /\ is_error'
              /\ pwm_enable' = 0
              /\ Count(queue', SM) >= 2)]_vars
    /\ [](FaultPending /\ filt = EmptyVec => Count(queue, SM) >= 1)
    /\ [][(event_update_state_machine /\ FaultPending /\ filt = EmptyVec)
          => (current_state' = "ERROR" /\ pwm_enable' = 0)]_vars

\* the redline task has run on empty filters and the evaluation has followed
C34_Witness ==
    /\ filt = EmptyVec
    /\ {OUT_UVLO, INP_OUT_INV} \subseteq Range(reported)
    /\ is_error
    /\ current_state = "ERROR"
    /\ led_error = 1

(***************************************************************************)
(* C35: for the same change of power and of voltage, the MPPT task of the  *)
(* main program moves its reference in the direction, and by the stride,   *)
(* that PandO::step_algorithm moves its own, for every combination of      *)
(* signs, zero included (where PandO leaves the reference as it is).       *)
(***************************************************************************)
C35_SameDirection ==
    [][PandO_StepAlgorithm =>
           LET delta_arr_v == pando.array_voltage - pando.prev_array_voltage
               delta_arr_p == (pando.array_voltage * pando.array_current)
                                  - pando.prev_array_power
           IN  pando'.reference_voltage - pando.reference_voltage
                   = MpptReference(pando.array_voltage, delta_arr_v, delta_arr_p)
                         - pando.array_voltage]_vars

(***************************************************************************)
(* C36: in every Fuzzy::step_algorithm call after the first, in_0 is the   *)
(* change of array power and in_1 the change of array current since the    *)
(* previous step, as percentages of max_power and max_current; the step    *)
(* stores the power and the current as the new previous values and leaves  *)
(* the four values of the context as they were given.                      *)
(***************************************************************************)
C36_InputsAndStash ==
    [][(Fuzzy_StepAlgorithm /\ fuzzy.has_started) =>
           LET array_power == fuzzy.array_voltage * fuzzy.array_current
           IN  /\ Fuzzy_in_0(fuzzy)
                      = ((array_power - fuzzy.prev_array_power) * 100 * FUZZY_PCT)
                            \div Fuzzy_max_power
               /\ Fuzzy_in_1(fuzzy)
                      = ((fuzzy.array_current - fuzzy.prev_array_current)
                             * 100 * FUZZY_PCT) \div Fuzzy_max_current
               /\ fuzzy'.prev_array_power = array_power
               /\ fuzzy'.prev_array_current = fuzzy.array_current
               /\ fuzzy'.array_voltage = fuzzy.array_voltage
               /\ fuzzy'.array_current = fuzzy.array_current
               /\ fuzzy'.battery_voltage = fuzzy.battery_voltage
               /\ fuzzy'.battery_current = fuzzy.battery_current]_vars

(***************************************************************************)
(* C37: no pair of input buckets selects output index 0 in the Fuzzy rule  *)
(* table, so every step that consults the table changes the reference by   *)
(* one of -0.02, +0.01, +0.02 and +0.04 V and never by -0.04 V.  As the    *)
(* claim words it, for every step: C37_EveryStepOneOfFour.  The first step *)
(* after construction or reset_state does not consult the table and leaves *)
(* the reference at 0; for the steps after it: C37_NoBigStepBack.          *)
(***************************************************************************)
FuzzyDeltas == {0 - 2, 1, 2, 4}

C38_NoUseAfterShutdown ==
    /\ [](heap.access = {})
    /\ [][(heap.mDataBuffer = "released"
               /\ \E sample \in FilterSamples : Filter_AddSample(sample)) =>
              filter' = filter]_vars
    /\ [][(heap.mDataBuffer = "released" /\ Filter_GetResult) =>
              filter_ret' = 0]_vars

====
